---- MODULE Spec2Model ----
(***************************************************************************)
(* State-machine model of the DiDi AI orchestration client: the React      *)
(* state of App (src/App.tsx), the step runner runStep, the three          *)
(* asynchronous handlers (handleUserMessage, handlePortfolioIngest,        *)
(* handleDeliverableGeneration) and the user actions that start them.      *)
(*                                                                         *)
(* Granularity: one action is one macrotask of the browser event loop,     *)
(* i.e. the synchronous code from the resumption after an external model   *)
(* call settles up to the next external call (or the end of the handler).  *)
(* A running handler keeps the closure of the render in which it was       *)
(* invoked: the values of activeDealId, deals and portfolio it reads are   *)
(* the ones captured at invocation, while functional state updates         *)
(* (setX(prev => ...)) act on the current state.                           *)
(***************************************************************************)
EXTENDS Integers, Sequences, FiniteSets, TLC

\* ---------------------------------------------------------------- bounds
\* Total number of handler invocations (runs) in one behaviour.
MaxRuns == 2
\* Maximal number of deal rooms in the collection.
MaxDeals == 2
\* The user creates a deal room by hand only while fewer rooms than this exist.
MaxUserDeals == 1
\* Maximal number of slides the content step returns for a deliverable.
MaxSlides == 1
\* Maximal number of entries the handlers add to a persisted list (messages,
\* logs, deals, portfolio) in the storage specification.
MaxStoredItems == 1
\* Maximal number of page loads in the storage specification.
MaxBoots == 2

RunIds == 1..MaxRuns

\* ------------------------------------------------------- generic helpers
Merge(base, upd) ==
    [k \in (DOMAIN base) \cup (DOMAIN upd) |->
        IF k \in DOMAIN upd THEN upd[k] ELSE base[k]]

Last(s) == s[Len(s)]

IsPrefix(s, t) == Len(s) <= Len(t) /\ SubSeq(t, 1, Len(s)) = s

\* ------------------------------------------------ JSON values (tagged)
Num(n) == [t |-> "num", n |-> n]
Str(s) == [t |-> "str", s |-> s]
Arr(a) == [t |-> "arr", a |-> a]
Obj(f) == [t |-> "obj", f |-> f]
Null == [t |-> "null"]
Bool(b) == [t |-> "bool", b |-> b]
EmptyObj == [k \in {} |-> Null]

\* JavaScript truthiness of a JSON value.
Truthy(v) ==
    \/ v.t \in {"arr", "obj", "date"}
    \/ v.t = "num" /\ v.n # 0
    \/ v.t = "str" /\ v.s # ""
    \/ v.t = "bool" /\ v.b

\* data.key || dflt
OrDefault(data, key, dflt) ==
    IF key \in DOMAIN data /\ Truthy(data[key]) THEN data[key] ELSE dflt

\* The settled outcome of a call: its value, or the error it threw.
Resolved(v) == [ok |-> TRUE, value |-> v]
Rejected(e) == [ok |-> FALSE, error |-> e]

\* ------------------------------------------------- texts and JSON.parse
\* A text is a sequence of symbols. The characters the code looks at are
\* symbols of their own: { } [ ] : , " \ the blank and the digits; a run of
\* other characters (a word, the fence ```) is one symbol, which the code
\* never splits.
Fence == "<fence>"

Digits == {"0", "1", "2", "3", "4", "5", "6", "7", "8", "9"}

DigitVal(d) ==
    CASE d = "0" -> 0 [] d = "1" -> 1 [] d = "2" -> 2 [] d = "3" -> 3
      [] d = "4" -> 4 [] d = "5" -> 5 [] d = "6" -> 6 [] d = "7" -> 7
      [] d = "8" -> 8 [] d = "9" -> 9

WhiteSpace == {" "}

\* String.prototype.trim
RECURSIVE TrimStart(_)
TrimStart(t) ==
    IF Len(t) > 0 /\ t[1] \in WhiteSpace THEN TrimStart(Tail(t)) ELSE t

RECURSIVE TrimEnd(_)
TrimEnd(t) ==
    IF Len(t) > 0 /\ t[Len(t)] \in WhiteSpace
    THEN TrimEnd(SubSeq(t, 1, Len(t) - 1)) ELSE t

Trim(t) == TrimEnd(TrimStart(t))

\* The JavaScript string with the characters cs; a string of one symbol is
\* that symbol, a longer one is named by its symbols.
StringOf(cs) ==
    IF Len(cs) = 0 THEN "" ELSE IF Len(cs) = 1 THEN cs[1] ELSE ToString(cs)

\* The SyntaxError JSON.parse throws when it cannot go on at position i.
SyntaxError(t, i) ==
    [ok |-> FALSE,
     message |-> IF i > Len(t)
                 THEN <<"Unexpected end of JSON input">>
                 ELSE <<"Unexpected token", t[i], "in JSON at position", i - 1>>]

RECURSIVE SkipWs(_, _)
SkipWs(t, i) == IF i <= Len(t) /\ t[i] \in WhiteSpace THEN SkipWs(t, i + 1) ELSE i

\* The characters of a string literal from position i (after the opening
\* quote) to its closing quote; \" and \\ are the escapes of the grammar.
RECURSIVE ParseString(_, _, _)
ParseString(t, i, acc) ==
    IF i > Len(t) THEN SyntaxError(t, i)
    ELSE IF t[i] = "\"" THEN [ok |-> TRUE, v |-> Str(StringOf(acc)), i |-> i + 1]
    ELSE IF t[i] = "\\"
    THEN IF i + 1 <= Len(t) /\ t[i + 1] \in {"\"", "\\"}
         THEN ParseString(t, i + 2, Append(acc, t[i + 1]))
         ELSE SyntaxError(t, i + 1)
    ELSE ParseString(t, i + 1, Append(acc, t[i]))

\* A number literal: digits, no leading zero before another digit.
RECURSIVE ParseDigits(_, _, _)
ParseDigits(t, i, n) ==
    IF i <= Len(t) /\ t[i] \in Digits
    THEN ParseDigits(t, i + 1, 10 * n + DigitVal(t[i]))
    ELSE [ok |-> TRUE, v |-> Num(n), i |-> i]

ParseNumber(t, i) ==
    IF t[i] = "0" /\ i + 1 <= Len(t) /\ t[i + 1] \in Digits
    THEN SyntaxError(t, i + 1)
    ELSE ParseDigits(t, i, 0)

RECURSIVE ParseValue(_, _)
RECURSIVE ParseMembers(_, _, _)
RECURSIVE ParseElements(_, _, _)

\* The members of an object from position i0, acc the members read so far.
ParseMembers(t, i0, acc) ==
    LET i == SkipWs(t, i0)
    IN  IF i > Len(t) \/ t[i] # "\"" THEN SyntaxError(t, i)
        ELSE LET k == ParseString(t, i + 1, <<>>)
             IN  IF ~k.ok THEN k
                 ELSE LET c == SkipWs(t, k.i)
                      IN  IF c > Len(t) \/ t[c] # ":" THEN SyntaxError(t, c)
                          ELSE LET v == ParseValue(t, c + 1)
                               IN  IF ~v.ok THEN v
                                   ELSE LET acc2 == Merge(acc, (k.v.s :> v.v))
                                            e == SkipWs(t, v.i)
                                        IN  IF e > Len(t) THEN SyntaxError(t, e)
                                            ELSE IF t[e] = ","
                                            THEN ParseMembers(t, e + 1, acc2)
                                            ELSE IF t[e] = "}"
                                            THEN [ok |-> TRUE, v |-> Obj(acc2), i |-> e + 1]
                                            ELSE SyntaxError(t, e)

\* The elements of an array from position i0, acc the elements read so far.
ParseElements(t, i0, acc) ==
    LET v == ParseValue(t, i0)
    IN  IF ~v.ok THEN v
        ELSE LET acc2 == Append(acc, v.v)
                 e == SkipWs(t, v.i)
             IN  IF e > Len(t) THEN SyntaxError(t, e)
                 ELSE IF t[e] = "," THEN ParseElements(t, e + 1, acc2)
                 ELSE IF t[e] = "]"
                 THEN [ok |-> TRUE, v |-> Arr(acc2), i |-> e + 1]
                 ELSE SyntaxError(t, e)

ParseValue(t, i0) ==
    LET i == SkipWs(t, i0)
    IN  IF i > Len(t) THEN SyntaxError(t, i)
        ELSE CASE t[i] = "{" ->
                    LET j == SkipWs(t, i + 1)
                    IN  IF j <= Len(t) /\ t[j] = "}"
                        THEN [ok |-> TRUE, v |-> Obj(EmptyObj), i |-> j + 1]
                        ELSE ParseMembers(t, j, EmptyObj)
               [] t[i] = "[" ->
                    LET j == SkipWs(t, i + 1)
                    IN  IF j <= Len(t) /\ t[j] = "]"
                        THEN [ok |-> TRUE, v |-> Arr(<<>>), i |-> j + 1]
                        ELSE ParseElements(t, j, <<>>)
               [] t[i] = "\"" -> ParseString(t, i + 1, <<>>)
               [] t[i] \in Digits -> ParseNumber(t, i)
               [] t[i] = "true" -> [ok |-> TRUE, v |-> Bool(TRUE), i |-> i + 1]
               [] t[i] = "false" -> [ok |-> TRUE, v |-> Bool(FALSE), i |-> i + 1]
               [] t[i] = "null" -> [ok |-> TRUE, v |-> Null, i |-> i + 1]
               [] OTHER -> SyntaxError(t, i)

\* JSON.parse(t): the value, or the SyntaxError thrown.
JSONparse(t) ==
    LET r == ParseValue(t, 1)
    IN  IF ~r.ok THEN [ok |-> FALSE, error |-> [name |-> "SyntaxError", message |-> r.message]]
        ELSE LET e == SkipWs(t, r.i)
             IN  IF e <= Len(t)
                 THEN [ok |-> FALSE,
                       error |-> [name |-> "SyntaxError",
                                  message |-> SyntaxError(t, e).message]]
                 ELSE [ok |-> TRUE, value |-> r.v]

\* --------------------------------------------- repairJSON (geminiService)
\* repaired[i] === QUOTE && (i === 0 || repaired[i-1] !== BACKSLASH)
UnescapedQuote(t, i) == t[i] = "\"" /\ (i = 1 \/ t[i - 1] # "\\")

\* 1. drop one trailing comma
DropTrailingComma(t) ==
    IF Len(t) > 0 /\ t[Len(t)] = "," THEN SubSeq(t, 1, Len(t) - 1) ELSE t

\* 2. close a dangling string
CloseString(t) ==
    IF Cardinality({i \in DOMAIN t : UnescapedQuote(t, i)}) % 2 # 0
    THEN Append(t, "\"") ELSE t

\* 3. the stack of expected closers after reading t from position i
RECURSIVE CloserStack(_, _, _, _)
CloserStack(t, i, insideString, stack) ==
    IF i > Len(t) THEN stack
    ELSE IF UnescapedQuote(t, i) THEN CloserStack(t, i + 1, ~insideString, stack)
    ELSE IF insideString THEN CloserStack(t, i + 1, insideString, stack)
    ELSE IF t[i] = "{" THEN CloserStack(t, i + 1, insideString, Append(stack, "}"))
    ELSE IF t[i] = "[" THEN CloserStack(t, i + 1, insideString, Append(stack, "]"))
    ELSE IF t[i] \in {"}", "]"} /\ Len(stack) > 0 /\ stack[Len(stack)] = t[i]
    THEN CloserStack(t, i + 1, insideString, SubSeq(stack, 1, Len(stack) - 1))
    ELSE CloserStack(t, i + 1, insideString, stack)

Reverse(q) == [k \in 1..Len(q) |-> q[Len(q) + 1 - k]]

repairJSON(jsonString) ==
    LET closed == CloseString(DropTrailingComma(Trim(jsonString)))
    IN  closed \o Reverse(CloserStack(closed, 1, FALSE, <<>>))

\* ------------------------------------- cleanAndParseJSON (geminiService)
\* text.replace(/```json/g, ''): the fence followed by the word json.
RECURSIVE RemoveJsonFences(_)
RemoveJsonFences(t) ==
    IF Len(t) = 0 THEN t
    ELSE IF Len(t) >= 2 /\ t[1] = Fence /\ t[2] = "json"
    THEN RemoveJsonFences(SubSeq(t, 3, Len(t)))
    ELSE <<t[1]>> \o RemoveJsonFences(Tail(t))

\* .replace(/```/g, '')
RECURSIVE RemoveFences(_)
RemoveFences(t) ==
    IF Len(t) = 0 THEN t
    ELSE IF t[1] = Fence THEN RemoveFences(Tail(t))
    ELSE <<t[1]>> \o RemoveFences(Tail(t))

\* indexOf: the first position of symbol c in t, 0 when there is none.
IndexOf(t, c) ==
    IF \E i \in DOMAIN t : t[i] = c
    THEN CHOOSE i \in DOMAIN t : t[i] = c /\ \A j \in 1..(i - 1) : t[j] # c
    ELSE 0

\* cleanText before the first JSON.parse.
CleanText(text) ==
    LET stripped == Trim(RemoveFences(RemoveJsonFences(text)))
        firstCurly == IndexOf(stripped, "{")
        firstSquare == IndexOf(stripped, "[")
        start == IF firstCurly # 0 /\ (firstSquare = 0 \/ firstCurly < firstSquare)
                 THEN firstCurly
                 ELSE IF firstSquare # 0 THEN firstSquare ELSE 0
    IN  IF start # 0 THEN SubSeq(stripped, start, Len(stripped)) ELSE stripped

\* Variant: the thrown error does not take over the message of e.
JSONParseFailed_NoCause(e) ==
    [name |-> "Error", message |-> <<"JSON Parse Failed", <<>>>>]

\* new Error(`JSON Parse Failed: ${e.message}`), e the error of the first parse.
JSONParseFailed(e) ==
    [name |-> "Error", message |-> <<"JSON Parse Failed", e.message>>]

\* response.text || "{}"
TextOrEmptyObject(text) == IF Len(text) = 0 THEN <<"{", "}">> ELSE text

cleanAndParseJSON(text) ==
    IF Len(text) = 0 THEN Resolved(Obj(EmptyObj))
    ELSE LET first == JSONparse(CleanText(text))
         IN  IF first.ok THEN Resolved(first.value)
             ELSE LET second == JSONparse(repairJSON(CleanText(text)))
                  IN  IF second.ok THEN Resolved(second.value)
                      ELSE Rejected(JSONParseFailed(first.error))

\* ------------------------------------ JSON.stringify and dateReviver (App)
\* A Date value; iso is what toISOString() gives for it.
Date(iso) == [t |-> "date", iso |-> iso]

\* A property whose value is undefined.
Undefined == [t |-> "undefined"]

\* The time stamps of the values used here, each one symbol of a text.
IsoStamps == {"2025-01-01T09:00:00.000Z", "2025-01-02T09:00:00.000Z"}

RECURSIVE NumberText(_)
NumberText(n) ==
    LET d == CHOOSE c \in Digits : DigitVal(c) = n % 10
    IN  IF n < 10 THEN <<d>> ELSE NumberText(n \div 10) \o <<d>>

\* A string literal: quotes and backslashes are escaped.
StringText(str) ==
    IF str = "" THEN <<"\"", "\"">>
    ELSE IF str \in {"\"", "\\"} THEN <<"\"", "\\", str, "\"">>
    ELSE <<"\"", str, "\"">>

RECURSIVE Stringify(_)
RECURSIVE StringifyElements(_)
RECURSIVE StringifyMembers(_, _)

\* The elements of an array, separated by commas; an undefined element is
\* written as null.
StringifyElements(a) ==
    IF Len(a) = 0 THEN <<>>
    ELSE (IF a[1].t = "undefined" THEN <<"null">> ELSE Stringify(a[1]))
            \o (IF Len(a) = 1 THEN <<>> ELSE <<",">> \o StringifyElements(Tail(a)))

\* The members of object f with the keys ks; the order of the members has no
\* effect on the value parsed back.
StringifyMembers(f, ks) ==
    IF ks = {} THEN <<>>
    ELSE LET k == CHOOSE x \in ks : TRUE
         IN  StringText(k) \o <<":">> \o Stringify(f[k])
                \o (IF ks = {k} THEN <<>> ELSE <<",">> \o StringifyMembers(f, ks \ {k}))

\* JSON.stringify(v): a Date is written as its ISO string, a property whose
\* value is undefined is left out.
Stringify(v) ==
    CASE v.t = "num" -> NumberText(v.n)
      [] v.t = "str" -> StringText(v.s)
      [] v.t = "bool" -> IF v.b THEN <<"true">> ELSE <<"false">>
      [] v.t = "null" -> <<"null">>
      [] v.t = "date" -> StringText(v.iso)
      [] v.t = "arr" -> <<"[">> \o StringifyElements(v.a) \o <<"]">>
      [] v.t = "obj" ->
            <<"{">> \o StringifyMembers(v.f, {k \in DOMAIN v.f : v.f[k].t # "undefined"})
                \o <<"}">>

\* dateReviver applied by JSON.parse to every value, innermost first: a string
\* that starts like an ISO time stamp becomes a Date.
RECURSIVE Revive(_)
Revive(v) ==
    CASE v.t = "str" -> IF v.s \in IsoStamps THEN Date(v.s) ELSE v
      [] v.t = "arr" -> Arr([i \in DOMAIN v.a |-> Revive(v.a[i])])
      [] v.t = "obj" -> Obj([k \in DOMAIN v.f |-> Revive(v.f[k])])
      [] OTHER -> v

\* ------------------------------------------------------ agents (types.ts)
Roles == {"MD", "VP", "ASSOCIATE", "SCOUT", "DILIGENCE", "COMPS", "DESIGN"}

AgentName(role) ==
    CASE role = "MD" -> "Athena (MD)"
      [] role = "VP" -> "Marcus (VP)"
      [] role = "ASSOCIATE" -> "Ken (Associate)"
      [] role = "SCOUT" -> "Scout-Alpha"
      [] role = "DILIGENCE" -> "Sarah (Diligence)"
      [] role = "COMPS" -> "Comps-Beta"
      [] role = "DESIGN" -> "Sienna (Design)"

INITIAL_AGENTS == [r \in Roles |-> [status |-> "idle", currentTask |-> "undefined"]]

\* generateTraceId() draws a random id, so two runs may draw the same one.
\* Ids are named in the order in which they are first drawn.
TraceIds == {"TR1", "TR2", "TR3"}

\* --------------------------------------------- Deal Record normalizer
defaultMemo ==
    [executiveSummary |-> Str("Pending generation..."),
     investmentRecommendation |-> Str("HOLD"),
     recommendationRationale |-> Str("Insufficient data for recommendation."),
     dealMerits |-> Arr(<<>>),
     investmentThesis |-> Arr(<<>>),
     keyRisks |-> Arr(<<>>),
     riskMitigation |-> Str("N/A"),
     marketOverview |-> Str("N/A"),
     competitiveLandscape |-> Str("N/A"),
     customerAnalysis |-> Str("N/A"),
     operationalUpside |-> Str("N/A")]

DefaultFinancialModels ==
    Obj([years |-> Arr(<<Str("LTM")>>),
         incomeStatement |-> Obj([title |-> Str("Income Statement"), rows |-> Arr(<<>>)]),
         balanceSheet |-> Obj([title |-> Str("Balance Sheet"), rows |-> Arr(<<>>)]),
         cashFlow |-> Obj([title |-> Str("Cash Flow"), rows |-> Arr(<<>>)])])

DefaultLboModel ==
    Obj([entryMultiple |-> Num(0), exitMultiple |-> Num(0), irr |-> Num(0),
         moic |-> Num(0), debttoEquity |-> Num(0)])

DefaultLboDetailed ==
    Obj([assumptions |-> Arr(<<>>), sources |-> Arr(<<>>), uses |-> Arr(<<>>),
         debtSchedule |-> Obj([title |-> Str("Debt Schedule"), rows |-> Arr(<<>>)]),
         projectedReturns |-> Obj([title |-> Str("Returns"), rows |-> Arr(<<>>)])])

\* { ...defaultMemo, ...(data.memo || {}) }: the own enumerable properties of
\* data.memo when it is an object; an array, number or string value of the
\* models used here contributes no named memo field.
MemoSpread(data) ==
    IF "memo" \in DOMAIN data /\ Truthy(data.memo) /\ data.memo.t = "obj"
    THEN data.memo.f ELSE EmptyObj

\* sanitizeDealData(data, companyName): data is a parsed JSON object, given as
\* the function from its keys to their values.
sanitizeDealData(data, companyName) ==
    [companyName |->
        IF "companyName" \in DOMAIN data /\ Truthy(data.companyName)
        THEN data.companyName
        ELSE IF Truthy(companyName) THEN companyName ELSE Str("Target Company"),
     sector |-> OrDefault(data, "sector", Str("Unknown Sector")),
     location |-> OrDefault(data, "location", Str("N/A")),
     ebitda |-> OrDefault(data, "ebitda", Num(0)),
     revenue |-> OrDefault(data, "revenue", Num(0)),
     askingMultiple |-> OrDefault(data, "askingMultiple", Num(0)),
     impliedValue |-> OrDefault(data, "impliedValue", Num(0)),
     financialModels |-> OrDefault(data, "financialModels", DefaultFinancialModels),
     lboModel |-> OrDefault(data, "lboModel", DefaultLboModel),
     lboDetailed |-> OrDefault(data, "lboDetailed", DefaultLboDetailed),
     memo |-> Obj(Merge(defaultMemo, MemoSpread(data))),
     sensitivityAnalysis |-> OrDefault(data, "sensitivityAnalysis", Arr(<<>>)),
     comparables |-> OrDefault(data, "comparables", Arr(<<>>)),
     candidatesAnalyzed |-> OrDefault(data, "candidatesAnalyzed", Arr(<<>>)),
     groundingUrls |-> OrDefault(data, "groundingUrls", Arr(<<>>)),
     deliverables |-> OrDefault(data, "deliverables", Arr(<<>>))]

\* Variant of DealStructureOf that leaves candidatesAnalyzed as normalized.
DealStructureOf_NoCandidates(rawJSON, companyName, candidates) ==
    sanitizeDealData(rawJSON, companyName)

\* generateDealStructure after the model call: parse result -> record.
\* rawJSON is the value cleanAndParseJSON returned for the response text.
DealStructureOf(rawJSON, companyName, candidates) ==
    [sanitizeDealData(rawJSON, companyName) EXCEPT !.candidatesAnalyzed = candidates]

\* ------------------------------------------------ state-update helpers
\* setAgents(prev => prev.map(a => a.role === role ? {...a, ...updates} : a))
updateAgent(ags, role, updates) ==
    [a \in DOMAIN ags |-> IF a = role THEN Merge(ags[a], updates) ELSE ags[a]]

\* setAgents(prev => prev.map(a => ({...a, ...updates})))
updateAllAgents(ags, updates) ==
    [a \in DOMAIN ags |-> Merge(ags[a], updates)]

\* setMessages(prev => [...prev, {...}]); dealId is the activeDealId of the
\* closure the caller runs in.  run is a history field (0: no run).
addMessage(msgs, closureDealId, role, content, sender, attachment, run) ==
    Append(msgs, [dealId |-> closureDealId, role |-> role, content |-> content,
                  sender |-> sender, attachment |-> attachment, run |-> run])

\* updateActiveDeal(updates, titleOverride) evaluated in a closure whose
\* activeDealId is closureDealId (0 stands for null).
updateActiveDeal(ds, closureDealId, updates, titleOverride) ==
    IF closureDealId = 0 THEN ds
    ELSE [i \in DOMAIN ds |->
            IF ds[i].id = closureDealId
            THEN [ds[i] EXCEPT
                    !.title = IF Truthy(titleOverride) THEN titleOverride ELSE @,
                    !.data = Merge(@, updates)]
            ELSE ds[i]]

NewDealData(title) ==
    [companyName |-> title,
     sector |-> Str("TBD"),
     ebitda |-> Num(0),
     revenue |-> Num(0),
     askingMultiple |-> Num(0),
     impliedValue |-> Num(0),
     lboModel |-> DefaultLboModel,
     memo |-> Obj([executiveSummary |-> Str("Pending..."),
                   investmentRecommendation |-> Str("HOLD"),
                   recommendationRationale |-> Str("Data needed."),
                   dealMerits |-> Arr(<<>>),
                   investmentThesis |-> Arr(<<>>),
                   keyRisks |-> Arr(<<>>),
                   riskMitigation |-> Str("N/A"),
                   marketOverview |-> Str("N/A"),
                   competitiveLandscape |-> Str("N/A"),
                   customerAnalysis |-> Str("N/A"),
                   operationalUpside |-> Str("N/A")])]

\* Variant of createNewDealRoom that replaces the collection by the new room.
createNewDealRoom_Replace(ds, newId, title) ==
    <<[id |-> newId, title |-> title, stage |-> "Sourcing",
       data |-> NewDealData(title)]>>

\* createNewDealRoom(title): the collection after setDeals(prev => [...prev, newDeal]);
\* newId is the Date.now() reading used as id.
createNewDealRoom(ds, newId, title) ==
    Append(ds, [id |-> newId, title |-> title, stage |-> "Sourcing",
                data |-> NewDealData(title)])

\* ------------------------------------------------------------- steps
\* The agent each step is run for (second argument of runStep is Descr).
StepRole(step) ==
    CASE step = "strategy" -> "MD"
      [] step = "scout" -> "SCOUT"
      [] step = "select" -> "VP"
      [] step = "deepdive" -> "SCOUT"
      [] step = "structure" -> "ASSOCIATE"
      [] step = "location" -> "SCOUT"
      [] step = "image" -> "VP"
      [] step = "opinion" -> "MD"
      [] step = "extract" -> "DILIGENCE"
      [] step = "ingest" -> "DILIGENCE"
      [] step = "content" -> "DESIGN"
      [] step = "slide" -> "DESIGN"

Descr(kind, step) ==
    CASE step = "strategy" -> "Analyzing Mandate & Strategy"
      [] step = "scout" -> "Market Scan & Sourcing (Live Web)"
      [] step = "select" -> "Target Filtering & Selection"
      [] step = "deepdive" -> "Triangulated Deep Dive"
      [] step = "structure" /\ kind = "sourcing" ->
            "Constructing LBO & Financial Models (Gap Filling Active)"
      [] step = "structure" /\ kind # "sourcing" ->
            "Building Financial Model from Extracted Data"
      [] step = "location" -> "HQ Location Verification"
      [] step = "image" -> "Generating Asset (Logo)"
      [] step = "opinion" -> "Formulating Investment Opinion"
      [] step = "extract" -> "Analyzing & Extracting Data from Documents"
      [] step = "ingest" -> "Parsing Portfolio Data & Normalizing Metrics"
      [] step = "content" -> "Drafting content"
      [] step = "slide" -> "Rendering visual for Slide"

\* The Error each service function throws when its model call fails
\* (every service wraps the failure in a new Error).
ServiceError(step) ==
    [message |->
        CASE step = "strategy" -> "MD Strategy Generation Failed"
          [] step = "scout" -> "Scouting Failed"
          [] step = "select" -> "Target Selection Failed"
          [] step = "deepdive" -> "Deep Dive Failed"
          [] step = "structure" -> "Structure Generation Failed"
          [] step = "location" -> "Location Verification Failed"
          [] step = "opinion" -> "Opinion Generation Failed"
          [] step = "extract" -> "Document Analysis Failed"
          [] step = "ingest" -> "Portfolio Ingestion Failed"
          [] step = "content" -> "Deliverable Content Failed"]


\* ------------------------------------------------------------ runStep
\* The log entry of the success path; inv is a history field naming the
\* runStep invocation <<run, index>> that wrote the entry.
CompletedEntry(traceId, role, description, inv) ==
    [traceId |-> traceId, agentName |-> AgentName(role), role |-> role,
     message |-> <<description, "Completed">>, status |-> "completed",
     errorDetails |-> "undefined", inv |-> inv]

\* The log entry of the failure path.
ErrorEntry(traceId, role, description, error, inv) ==
    [traceId |-> traceId, agentName |-> AgentName(role), role |-> role,
     message |-> <<"FAILED", description>>, status |-> "error",
     errorDetails |-> [message |-> error.message, context |-> description],
     inv |-> inv]

\* runStep before the await: updateAgent(agentRole, WORKING, description).
runStepBegin(ags, role, description) ==
    updateAgent(ags, role, [status |-> "working", currentTask |-> description])

\* Variant of runStepReturn that throws a new Error instead of the caught one.
runStepReturn_NewError(outcome) ==
    IF outcome.ok THEN outcome ELSE Rejected([message |-> "Step Failed"])

\* What runStep hands to its caller for the outcome of fn(): the result
\* returned unchanged, or the caught error thrown again.
runStepReturn(outcome) == outcome

\* Variant of runStepLogs that puts the new entry in front of the log.
runStepLogs_Prepend(lg, traceId, role, description, outcome, inv) ==
    IF outcome.ok
    THEN <<CompletedEntry(traceId, role, description, inv)>> \o lg
    ELSE <<ErrorEntry(traceId, role, description, outcome.error, inv)>> \o lg

\* Variant of runStepLogs that logs nothing when fn() rejects.
runStepLogs_SilentError(lg, traceId, role, description, outcome, inv) ==
    IF outcome.ok
    THEN Append(lg, CompletedEntry(traceId, role, description, inv))
    ELSE lg

\* The log after runStep's continuation.
runStepLogs(lg, traceId, role, description, outcome, inv) ==
    IF outcome.ok
    THEN Append(lg, CompletedEntry(traceId, role, description, inv))
    ELSE Append(lg, ErrorEntry(traceId, role, description, outcome.error, inv))

\* The agents after runStep's continuation.
runStepAgents(ags, role, outcome) ==
    IF outcome.ok
    THEN updateAgent(ags, role, [status |-> "idle", currentTask |-> "Standby"])
    ELSE updateAgent(ags, role, [status |-> "error", currentTask |-> "Error encountered"])

\* Variant of DirectEntry that drops the trace id.
DirectEntry_NoTrace(traceId, role, message, run) ==
    [traceId |-> "none", agentName |-> AgentName(role), role |-> role,
     message |-> message, status |-> "completed",
     errorDetails |-> "undefined", inv |-> <<run, 0>>]

\* Entries appended to the log outside runStep (candidate list, comps); run is
\* a history field, recorded as invocation <<run, 0>>.
DirectEntry(traceId, role, message, run) ==
    [traceId |-> traceId, agentName |-> AgentName(role), role |-> role,
     message |-> message, status |-> "completed",
     errorDetails |-> "undefined", inv |-> <<run, 0>>]

\* catch block of handleUserMessage.
pipelineCatchMessages(msgs, closureDealId, error, run) ==
    addMessage(msgs, closureDealId, "system",
               <<"Pipeline Execution Failed", error.message>>, "SYSTEM", "none", run)

\* Variant of pipelineCatchAgents that leaves the agents as they are.
pipelineCatchAgents_Untouched(ags) == ags

pipelineCatchAgents(ags) == updateAllAgents(ags, [status |-> "error"])

\* Variant of pipelineCatchDeals that resets the data of every room.
pipelineCatchDeals_ResetData(ds) ==
    [i \in DOMAIN ds |-> [ds[i] EXCEPT !.data = NewDealData(ds[i].title)]]

\* Variant of pipelineCatchDeals that rolls the newest room back.
pipelineCatchDeals_Rollback(ds) == SubSeq(ds, 1, Len(ds) - 1)

\* What the catch/finally path of handleUserMessage does to the deals.
pipelineCatchDeals(ds) == ds

\* Variant of NextStep that goes from structuring straight to the image.
NextStep_SkipLocation(kind, step) ==
    IF kind = "sourcing"
    THEN CASE step = "strategy" -> "scout"
           [] step = "scout" -> "select"
           [] step = "select" -> "deepdive"
           [] step = "deepdive" -> "structure"
           [] step = "structure" -> "image"
           [] step = "location" -> "image"
           [] step = "image" -> "opinion"
           [] step = "opinion" -> "end"
    ELSE CASE step = "extract" -> "structure"
           [] step = "structure" -> "opinion"
           [] step = "opinion" -> "end"

\* ------------------------------------------------- orchestration order
\* The step handleUserMessage starts after `step` returned ("end": none).
NextStep(kind, step) ==
    IF kind = "sourcing"
    THEN CASE step = "strategy" -> "scout"
           [] step = "scout" -> "select"
           [] step = "select" -> "deepdive"
           [] step = "deepdive" -> "structure"
           [] step = "structure" -> "location"
           [] step = "location" -> "image"
           [] step = "image" -> "opinion"
           [] step = "opinion" -> "end"
    ELSE CASE step = "extract" -> "structure"
           [] step = "structure" -> "opinion"
           [] step = "opinion" -> "end"

\* ------------------------------------- image generation (geminiService)
\* generateConceptImage and generateSlideDesign have the same body; they
\* differ in the prompt and in the aspect ratio.
ImageKinds == {"concept", "slide"}

AspectRatio(kind) == IF kind = "concept" THEN "1:1" ELSE "16:9"

PrimaryImageModel == "gemini-3-pro-image-preview"

FallbackImageModel == "gemini-2.5-flash-image"

\* generateWithModel(model, useAdvancedConfig): the request handed to
\* ai.models.generateContent. config.imageConfig.imageSize exists only when
\* useAdvancedConfig is set.
generateWithModel(kind, model, useAdvancedConfig) ==
    [model |-> model,
     imageConfig |-> IF useAdvancedConfig
                     THEN [aspectRatio |-> AspectRatio(kind), imageSize |-> "1K"]
                     ELSE [aspectRatio |-> AspectRatio(kind)]]

\* What one generateContent call can do: resolve with the parts of the first
\* candidate (none, text only, or with inline image data), or reject with an
\* error whose message is given word by word (the last one has no message).
ImageApiOutcomes ==
    {Resolved(<<>>),
     Resolved(<<[text |-> "caption"]>>),
     Resolved(<<[inlineData |-> "b64"]>>),
     Resolved(<<[text |-> "caption"], [inlineData |-> "b64"]>>),
     Rejected([message |-> <<"403", "Forbidden">>]),
     Rejected([message |-> <<"PERMISSION_DENIED">>]),
     Rejected([message |-> <<"Quota", "exceeded">>]),
     Rejected([message |-> <<"500", "Internal">>]),
     Rejected([name |-> "Error"])}

\* for (const part of parts) if (part.inlineData) return `data:image/png;base64,...`
HasInlineData(parts) == \E i \in DOMAIN parts : "inlineData" \in DOMAIN parts[i]

ImageUrl == Str("data:image/png;base64")

\* Variant of IsAccessError that sends every primary failure to the fallback.
IsAccessError_Always(error) == TRUE

\* error.message?.includes('403') || ...('PERMISSION_DENIED') || ...('Quota')
IsAccessError(error) ==
    /\ "message" \in DOMAIN error
    /\ \E i \in DOMAIN error.message :
          error.message[i] \in {"403", "PERMISSION_DENIED", "Quota"}

\* What the function returns once the primary call has resolved.
ImageAfterPrimary(primary) ==
    IF HasInlineData(primary.value) THEN Resolved(ImageUrl) ELSE Resolved(Null)

\* What the function returns once the fallback call has settled.
ImageAfterFallback(fallback) ==
    IF fallback.ok /\ HasInlineData(fallback.value)
    THEN Resolved(ImageUrl) ELSE Resolved(Null)

\* Variant of generateConceptImage that lets a failure of the calls escape.
generateConceptImage_Throws(primary, fallback) ==
    IF primary.ok
    THEN ImageAfterPrimary(primary)
    ELSE IF fallback.ok
    THEN ImageAfterFallback(fallback)
    ELSE Rejected([message |-> "Image Generation Failed"])

\* generateConceptImage as a function of what its primary call and (if made)
\* its fallback call do.
generateConceptImage(primary, fallback) ==
    IF primary.ok
    THEN ImageAfterPrimary(primary)
    ELSE IF IsAccessError(primary.error)
    THEN ImageAfterFallback(fallback)
    ELSE Resolved(Null)

generateSlideDesign(primary, fallback) ==
    IF primary.ok
    THEN ImageAfterPrimary(primary)
    ELSE IF IsAccessError(primary.error)
    THEN ImageAfterFallback(fallback)
    ELSE Resolved(Null)

\* ------------------------------------------- external model responses
FullObj ==
    [companyName |-> Str("Acme Corp"),
     sector |-> Str("Healthcare"),
     ebitda |-> Num(12),
     financialModels |-> Obj([years |-> Arr(<<Str("2024")>>)]),
     lboModel |-> Obj([entryMultiple |-> Num(8), exitMultiple |-> Num(10),
                       irr |-> Num(25), moic |-> Num(3), debttoEquity |-> Num(1)]),
     memo |-> Obj([executiveSummary |-> Str("Summary"),
                   investmentRecommendation |-> Str("GO")])]

\* Parsed structuring responses the model draws from.
StructResponses == {EmptyObj, FullObj}

SlideLists == {[i \in 1..n |-> "noimg"] : n \in 0..MaxSlides}

\* The outcomes fn() can have for a step of run record rr.
\* verifyLocation is drawn with one map link or a rejection (it can also
\* resolve with no link, which only leaves `location` as the normalizer set it).
\* Ids read from Date.now() are taken to be distinct (the counter `now`).
Work(step, rr) ==
    CASE step \in {"strategy", "opinion"} ->
            {Resolved(Str("text")), Rejected(ServiceError(step))}
      [] step = "scout" ->
            {Resolved(Arr(<<>>)), Resolved(Arr(<<Str("Acme"), Str("Globex")>>)),
             Rejected(ServiceError(step))}
      [] step = "select" ->
            {Resolved(Str("Acme")), Rejected(ServiceError(step))}
      [] step = "deepdive" ->
            {Resolved(Obj([text |-> Str("dd"), sources |-> Arr(<<Str("src-url")>>)])),
             Rejected(ServiceError(step))}
      [] step = "structure" ->
            {Resolved(Obj(DealStructureOf(raw, rr.fallbackName, rr.targets))) :
                raw \in StructResponses} \cup {Rejected(ServiceError(step))}
      [] step = "location" ->
            {Resolved(Arr(<<Str("maps-uri")>>)), Rejected(ServiceError(step))}
      [] step = "image" ->
            {generateConceptImage(p, f) : p, f \in ImageApiOutcomes}
      [] step = "slide" ->
            {generateSlideDesign(p, f) : p, f \in ImageApiOutcomes}
      [] step = "extract" ->
            {Resolved(Obj([companyName |-> Str("DocCo"), summary |-> Str("sum")])),
             Rejected(ServiceError(step))}
      [] step = "ingest" ->
            {Resolved(Arr(<<Str("PortCo")>>)), Rejected(ServiceError(step))}
      [] step = "content" ->
            {Resolved(Arr(sl)) : sl \in SlideLists} \cup {Rejected(ServiceError(step))}

\* ---------------------------------------------------------------- state
VARIABLES
    agents,        \* role -> [status, currentTask]
    logs,          \* the step log
    deals,         \* the deal collection (sequence of deal rooms)
    messages,      \* the message log
    activeDealId,  \* 0 stands for null
    currentView,   \* "pipeline" | "portfolio"
    isProcessing,
    activeEdge,
    portfolio,
    runs,          \* the handler invocations, by run id
    now,           \* last Date.now() reading used as an id
    fileRead,      \* PortCoDashboard.handleFileChange reading the picked files
    img,           \* one call of generateConceptImage / generateSlideDesign
    json,          \* one call of cleanAndParseJSON (and the normalizer after it)
    norm,          \* one call of sanitizeDealData
    store          \* localStorage and the slices of a process started from it

appVars == <<agents, logs, deals, messages, activeDealId, currentView, isProcessing,
             activeEdge, portfolio, runs, now, fileRead>>

\* The service functions of geminiService.ts hold no state of their own; img,
\* json and norm record one call each in the service-level specifications;
\* store follows localStorage through the starts and reloads of the page.
svcVars == <<img, json, norm, store>>

vars == <<agents, logs, deals, messages, activeDealId, currentView, isProcessing,
          activeEdge, portfolio, runs, now, fileRead, img, json, norm, store>>

EmptyRun ==
    [kind |-> "none", pc |-> "idle", traceId |-> "none",
     closureDealId |-> 0,     \* activeDealId of the closure the handler runs in
     roomId |-> 0,            \* history: the deal room the run works on
     dealsBefore |-> <<>>,    \* history: the deal collection before the run
     structured |-> EmptyObj, \* history: the record the structuring step returned
     nsteps |-> 0,            \* history: runStep invocations so far
     hist |-> <<>>,           \* history: steps started, with the outcome of fn()
     lastWork |-> Null,       \* history: outcome of the last fn()
     lastRet |-> Null,        \* history: what runStep handed to the caller
     result |-> "none", error |-> "none",
     dealContextId |-> 0,     \* document flow: the local dealContextId
     targets |-> Arr(<<>>), fallbackName |-> Null, sources |-> Arr(<<>>),
     titleOverride |-> Null,
     sd |-> EmptyObj, committed |-> FALSE,
     imageUrl |-> Null,
     snapTitle |-> Null, snapDeliverables |-> <<>>,
     delivId |-> 0, slides |-> <<>>, slideIdx |-> 0]

INITIAL_MESSAGES ==
    <<[dealId |-> 0, role |-> "system", content |-> <<"DiDi AI System initialized.">>,
       sender |-> "SYSTEM", attachment |-> "none", run |-> 0]>>

AppInit ==
    /\ agents = INITIAL_AGENTS
    /\ logs = <<>>
    /\ deals = <<>>
    /\ messages = INITIAL_MESSAGES
    /\ activeDealId = 0
    /\ currentView = "pipeline"
    /\ isProcessing = FALSE
    /\ activeEdge = "null"
    /\ portfolio = <<>>
    /\ runs = [r \in RunIds |-> EmptyRun]
    /\ now = 0
    /\ fileRead = [pending |-> FALSE, closureDealId |-> 0]

\* No service call is being traced.
NoCall == [pc |-> "none"]

Init ==
    /\ AppInit
    /\ img = NoCall /\ json = NoCall /\ norm = NoCall /\ store = NoCall

\* ------------------------------------------------------- run bookkeeping
Fresh(r) == runs[r].kind = "none" /\ \A q \in RunIds : q < r => runs[q].kind # "none"

BeginStep(rr, step) ==
    [rr EXCEPT !.pc = step, !.nsteps = @ + 1,
               !.hist = Append(@, [step |-> step, out |-> "inflight"])]

Settled(rr, out) ==
    [rr EXCEPT !.hist[Len(rr.hist)].out = IF out.ok THEN "ok" ELSE "err",
               !.lastWork = out, !.lastRet = runStepReturn(out)]

InFlight(r) == runs[r].kind # "none" /\ runs[r].pc \notin {"idle", "timer", "done"}

\* logs and agents after the continuation of the runStep in flight in run r
SL(r, out) ==
    runStepLogs(logs, runs[r].traceId, StepRole(runs[r].pc),
                Descr(runs[r].kind, runs[r].pc), out, <<r, runs[r].nsteps>>)

SA(r, out) == runStepAgents(agents, StepRole(runs[r].pc), out)

\* The ids generateTraceId() can return, up to renaming: an id drawn before,
\* or the first id not drawn yet.
TraceOrder(t) == CASE t = "TR1" -> 1 [] t = "TR2" -> 2 [] t = "TR3" -> 3

generateTraceId ==
    LET used == {runs[q].traceId : q \in RunIds} \cap TraceIds
    IN  used \cup {t \in TraceIds : TraceOrder(t) = Cardinality(used) + 1}

DealExists(id) == \E i \in DOMAIN deals : deals[i].id = id

\* ------------------------------------------------------- user navigation
\* Sidebar button "Pipeline View".
NavPipeline ==
    /\ UNCHANGED svcVars
    /\ currentView' = "pipeline"
    /\ activeDealId' = 0
    /\ UNCHANGED <<agents, logs, deals, messages, isProcessing, activeEdge,
                   portfolio, runs, now, fileRead>>

\* Sidebar button "PortCo Command".
NavPortfolio ==
    /\ UNCHANGED svcVars
    /\ currentView' = "portfolio"
    /\ activeDealId' = 0
    /\ UNCHANGED <<agents, logs, deals, messages, isProcessing, activeEdge,
                   portfolio, runs, now, fileRead>>

\* PipelineDashboard.onSelectDeal, rendered when currentView is pipeline and
\* no deal is active.
SelectDeal ==
    /\ UNCHANGED svcVars
    /\ currentView = "pipeline" /\ activeDealId = 0
    /\ \E i \in DOMAIN deals : activeDealId' = deals[i].id
    /\ UNCHANGED <<agents, logs, deals, messages, currentView, isProcessing,
                   activeEdge, portfolio, runs, now, fileRead>>

\* PipelineDashboard.onCreateDeal.
CreateDeal ==
    /\ UNCHANGED svcVars
    /\ currentView = "pipeline" /\ activeDealId = 0
    /\ Len(deals) < MaxUserDeals
    /\ now' = now + 1
    /\ deals' = createNewDealRoom(deals, now', Str("New Deal"))
    /\ activeDealId' = now'
    /\ UNCHANGED <<agents, logs, messages, currentView, isProcessing, activeEdge,
                   portfolio, runs, fileRead>>

\* finally of handleUserMessage and handlePortfolioIngest.
\* The locals of a finished handler are dropped.
DropLocals(rr) ==
    [rr EXCEPT !.targets = EmptyRun.targets, !.fallbackName = EmptyRun.fallbackName,
               !.sources = EmptyRun.sources, !.titleOverride = EmptyRun.titleOverride,
               !.sd = EmptyRun.sd, !.imageUrl = EmptyRun.imageUrl,
               !.snapTitle = EmptyRun.snapTitle,
               !.snapDeliverables = EmptyRun.snapDeliverables,
               !.slides = EmptyRun.slides, !.slideIdx = EmptyRun.slideIdx]

FinishRun(rr, result) == [DropLocals(rr) EXCEPT !.pc = "done", !.result = result]

\* --------------------------------------------- handleUserMessage: abort
\* catch and finally of handleUserMessage for run r; rr is the run record,
\* lg and ags the log and agents reached when the error was raised.
AbortRun(r, rr, lg, ags, error) ==
    /\ logs' = lg
    /\ agents' = pipelineCatchAgents(ags)
    /\ messages' = pipelineCatchMessages(messages, rr.closureDealId, error, r)
    /\ deals' = pipelineCatchDeals(deals)
    /\ isProcessing' = FALSE
    /\ activeEdge' = "null"
    /\ runs' = [runs EXCEPT ![r] =
                  [FinishRun(rr, "aborted") EXCEPT !.error = error.message]]
    /\ UNCHANGED <<activeDealId, currentView, portfolio, now, fileRead>>

\* ------------------------------------------ handleUserMessage: sourcing
\* ChatInterface.handleSubmit without attachments, then handleUserMessage up
\* to the first await.
SubmitSourcing(r) ==
    /\ UNCHANGED svcVars
    /\ Fresh(r)
    /\ ~isProcessing
    /\ activeDealId = 0 => Len(deals) < MaxDeals
    /\ \E tid \in generateTraceId :
        LET needNew == activeDealId = 0
            newId == now + 1
            rr == [EmptyRun EXCEPT !.kind = "sourcing", !.traceId = tid,
                                   !.closureDealId = activeDealId,
                                   !.dealsBefore = deals,
                                   !.roomId = IF needNew THEN newId ELSE activeDealId]
        IN  /\ messages' = addMessage(messages, activeDealId, "user", <<"text">>,
                                      "undefined", "none", r)
            /\ isProcessing' = TRUE
            /\ now' = IF needNew THEN newId ELSE now
            /\ deals' = IF needNew
                        THEN createNewDealRoom(deals, newId, Str("Sourcing Scan"))
                        ELSE deals
            /\ activeDealId' = IF needNew THEN newId ELSE activeDealId
            /\ agents' = runStepBegin(agents, StepRole("strategy"),
                                      Descr("sourcing", "strategy"))
            /\ runs' = [runs EXCEPT ![r] = BeginStep(rr, "strategy")]
    /\ UNCHANGED <<logs, currentView, activeEdge, portfolio, fileRead>>

AfterStrategy(r) ==
    /\ UNCHANGED svcVars
    /\ runs[r].kind = "sourcing" /\ runs[r].pc = "strategy"
    /\ \E out \in Work("strategy", runs[r]) :
        LET rr == Settled(runs[r], out)
            ret == rr.lastRet
            next == NextStep(rr.kind, "strategy")
        IN  IF ret.ok
            THEN /\ logs' = SL(r, out)
                 /\ messages' = addMessage(messages, rr.closureDealId, "model",
                                           <<"strategy", ret.value>>, "Athena (MD)",
                                           "none", r)
                 /\ agents' = runStepBegin(
                        updateAgent(
                            updateAgent(SA(r, out), "MD", [status |-> "idle"]),
                            "VP", [status |-> "working",
                                   currentTask |-> "Dispatching Scout Swarm..."]),
                        StepRole(next), Descr(rr.kind, next))
                 /\ activeEdge' = "MD-VP"
                 /\ runs' = [runs EXCEPT ![r] = BeginStep(rr, next)]
                 /\ UNCHANGED <<deals, activeDealId, currentView, isProcessing,
                                portfolio, now, fileRead>>
            ELSE AbortRun(r, rr, SL(r, out), SA(r, out), ret.error)

NoTargetsError ==
    [message |-> "Scout returned 0 targets. Try refining your search criteria."]

AfterScout(r) ==
    /\ UNCHANGED svcVars
    /\ runs[r].kind = "sourcing" /\ runs[r].pc = "scout"
    /\ \E out \in Work("scout", runs[r]) :
        LET rr == Settled(runs[r], out)
            ret == rr.lastRet
            next == NextStep(rr.kind, "scout")
        IN  IF ~ret.ok
            THEN AbortRun(r, rr, SL(r, out), SA(r, out), ret.error)
            ELSE IF Len(ret.value.a) = 0
            THEN AbortRun(r, rr, SL(r, out), SA(r, out), NoTargetsError)
            ELSE /\ logs' = Append(SL(r, out),
                                   DirectEntry(rr.traceId, "SCOUT",
                                               <<"Identified candidates", ret.value>>, r))
                 /\ agents' = runStepBegin(
                        updateAgent(SA(r, out), "VP",
                            [status |-> "thinking",
                             currentTask |-> "Selecting best fit from candidates..."]),
                        StepRole(next), Descr(rr.kind, next))
                 /\ activeEdge' = "VP-SCOUT"
                 /\ runs' = [runs EXCEPT ![r] =
                               BeginStep([rr EXCEPT !.targets = ret.value], next)]
                 /\ UNCHANGED <<deals, messages, activeDealId, currentView,
                                isProcessing, portfolio, now, fileRead>>

AfterSelect(r) ==
    /\ UNCHANGED svcVars
    /\ runs[r].kind = "sourcing" /\ runs[r].pc = "select"
    /\ \E out \in Work("select", runs[r]) :
        LET rr == Settled(runs[r], out)
            ret == rr.lastRet
            next == NextStep(rr.kind, "select")
        IN  IF ret.ok
            THEN /\ logs' = SL(r, out)
                 /\ agents' = updateAgent(
                        runStepBegin(SA(r, out), StepRole(next), Descr(rr.kind, next)),
                        "COMPS", [status |-> "working",
                                  currentTask |-> "Spreading Multiples..."])
                 /\ activeEdge' = "VP-SCOUT"
                 /\ runs' = [runs EXCEPT ![r] =
                               BeginStep([rr EXCEPT !.fallbackName = ret.value], next)]
                 /\ UNCHANGED <<deals, messages, activeDealId, currentView,
                                isProcessing, portfolio, now, fileRead>>
            ELSE AbortRun(r, rr, SL(r, out), SA(r, out), ret.error)

AfterDeepDive(r) ==
    /\ UNCHANGED svcVars
    /\ runs[r].kind = "sourcing" /\ runs[r].pc = "deepdive"
    /\ \E out \in Work("deepdive", runs[r]) :
        LET rr == Settled(runs[r], out)
            ret == rr.lastRet
            next == NextStep(rr.kind, "deepdive")
        IN  IF ret.ok
            THEN /\ logs' = Append(SL(r, out),
                                   DirectEntry(rr.traceId, "COMPS",
                                       <<"Comparable Set Analysis (Simulated)">>, r))
                 /\ agents' = runStepBegin(
                        updateAgent(SA(r, out), "COMPS", [status |-> "idle"]),
                        StepRole(next), Descr(rr.kind, next))
                 /\ activeEdge' = "VP-ASSOCIATE"
                 /\ runs' = [runs EXCEPT ![r] =
                               BeginStep([rr EXCEPT !.sources = ret.value.f.sources], next)]
                 /\ UNCHANGED <<deals, messages, activeDealId, currentView,
                                isProcessing, portfolio, now, fileRead>>
            ELSE AbortRun(r, rr, SL(r, out), SA(r, out), ret.error)

\* structuredData after lines 568-569: grounding urls and verified location.
SourcingCommitData(sd, sources, maps) ==
    [sd EXCEPT !.groundingUrls = Arr(sources.a \o maps.a),
               !.location = IF Len(maps.a) > 0
                            THEN Str("HQ Verified via Google Maps") ELSE @]

AfterStructure(r) ==
    /\ UNCHANGED svcVars
    /\ runs[r].kind = "sourcing" /\ runs[r].pc = "structure"
    /\ \E out \in Work("structure", runs[r]) :
        LET rr == Settled(runs[r], out)
            ret == rr.lastRet
            next == NextStep(rr.kind, "structure")
        IN  IF ~ret.ok
            THEN AbortRun(r, rr, SL(r, out), SA(r, out), ret.error)
            ELSE IF Truthy(ret.value.f.companyName)
            THEN /\ logs' = SL(r, out)
                 /\ agents' = runStepBegin(SA(r, out), StepRole(next),
                                           Descr(rr.kind, next))
                 /\ runs' = [runs EXCEPT ![r] =
                               BeginStep([rr EXCEPT !.sd = ret.value.f,
                                                    !.structured = ret.value.f], next)]
                 /\ UNCHANGED <<deals, messages, activeDealId, currentView,
                                isProcessing, activeEdge, portfolio, now, fileRead>>
            ELSE \* no company name: location and image are skipped
                 LET sd2 == SourcingCommitData(ret.value.f, rr.sources, Arr(<<>>))
                 IN  /\ logs' = SL(r, out)
                     /\ deals' = updateActiveDeal(deals, rr.closureDealId, sd2,
                                                  sd2.companyName)
                     /\ agents' = runStepBegin(
                            updateAgent(SA(r, out), "MD",
                                [status |-> "thinking",
                                 currentTask |-> "Final Investment Committee Review..."]),
                            StepRole("opinion"), Descr(rr.kind, "opinion"))
                     /\ activeEdge' = "ASSOCIATE-MD"
                     /\ runs' = [runs EXCEPT ![r] =
                                   BeginStep([rr EXCEPT !.sd = sd2,
                                        !.structured = ret.value.f,
                                        !.committed = DealExists(rr.closureDealId)],
                                             "opinion")]
                     /\ UNCHANGED <<messages, activeDealId, currentView,
                                    isProcessing, portfolio, now, fileRead>>

AfterLocation(r) ==
    /\ UNCHANGED svcVars
    /\ runs[r].kind = "sourcing" /\ runs[r].pc = "location"
    /\ \E out \in Work("location", runs[r]) :
        LET rr == Settled(runs[r], out)
            ret == rr.lastRet
            next == NextStep(rr.kind, "location")
        IN  IF ret.ok
            THEN LET sd2 == SourcingCommitData(rr.sd, rr.sources, ret.value)
                 IN  /\ logs' = SL(r, out)
                     /\ deals' = updateActiveDeal(deals, rr.closureDealId, sd2,
                                                  sd2.companyName)
                     /\ agents' = runStepBegin(SA(r, out), StepRole(next),
                                               Descr(rr.kind, next))
                     /\ runs' = [runs EXCEPT ![r] =
                                   BeginStep([rr EXCEPT !.sd = sd2,
                                        !.committed = DealExists(rr.closureDealId)],
                                             next)]
                     /\ UNCHANGED <<messages, activeDealId, currentView,
                                    isProcessing, activeEdge, portfolio, now, fileRead>>
            ELSE AbortRun(r, rr, SL(r, out), SA(r, out), ret.error)

AfterImage(r) ==
    /\ UNCHANGED svcVars
    /\ runs[r].kind = "sourcing" /\ runs[r].pc = "image"
    /\ \E out \in Work("image", runs[r]) :
        LET rr == Settled(runs[r], out)
            ret == rr.lastRet
            next == NextStep(rr.kind, "image")
        IN  IF ret.ok
            THEN /\ logs' = SL(r, out)
                 /\ agents' = runStepBegin(
                        updateAgent(SA(r, out), "MD",
                            [status |-> "thinking",
                             currentTask |-> "Final Investment Committee Review..."]),
                        StepRole(next), Descr(rr.kind, next))
                 /\ activeEdge' = "ASSOCIATE-MD"
                 /\ runs' = [runs EXCEPT ![r] =
                               BeginStep([rr EXCEPT !.imageUrl = ret.value], next)]
                 /\ UNCHANGED <<deals, messages, activeDealId, currentView,
                                isProcessing, portfolio, now, fileRead>>
            ELSE AbortRun(r, rr, SL(r, out), SA(r, out), ret.error)

\* Final opinion of either flow, the model message and finally.
AfterOpinion(r) ==
    /\ UNCHANGED svcVars
    /\ runs[r].kind \in {"sourcing", "document"} /\ runs[r].pc = "opinion"
    /\ \E out \in Work("opinion", runs[r]) :
        LET rr == Settled(runs[r], out)
            ret == rr.lastRet
        IN  IF ret.ok
            THEN /\ logs' = SL(r, out)
                 /\ agents' = SA(r, out)
                 /\ messages' = addMessage(messages, rr.closureDealId, "model",
                                           <<"opinion", ret.value>>, "Athena (MD)",
                                           IF Truthy(rr.imageUrl) THEN "image" ELSE "none",
                                           r)
                 /\ isProcessing' = FALSE
                 /\ activeEdge' = "null"
                 /\ runs' = [runs EXCEPT ![r] = FinishRun(rr, "ok")]
                 /\ UNCHANGED <<deals, activeDealId, currentView, portfolio, now,
                                fileRead>>
            ELSE AbortRun(r, rr, SL(r, out), SA(r, out), ret.error)

\* ------------------------------------ handleUserMessage: document flow
\* ChatInterface.handleSubmit with attachments, then handleUserMessage up to
\* the first await.
SubmitDocument(r) ==
    /\ UNCHANGED svcVars
    /\ Fresh(r)
    /\ ~isProcessing
    /\ activeDealId = 0 => Len(deals) < MaxDeals
    /\ \E tid \in generateTraceId :
        LET needNew == activeDealId = 0
            newId == now + 1
            ctx == IF needNew THEN newId ELSE activeDealId
            rr == [EmptyRun EXCEPT !.kind = "document", !.traceId = tid,
                                   !.closureDealId = activeDealId,
                                   !.dealsBefore = deals,
                                   !.dealContextId = ctx, !.roomId = ctx]
            m1 == addMessage(messages, activeDealId, "user", <<"text">>,
                             "undefined", "none", r)
            m2 == IF needNew
                  THEN addMessage(m1, activeDealId, "system",
                                  <<"Starting new Diligence Room for document analysis...">>,
                                  "SYSTEM", "none", r)
                  ELSE m1
        IN  /\ messages' = addMessage(m2, activeDealId, "system",
                                      <<"Documents detected. Activating Diligence Agent for analysis...">>,
                                      "SYSTEM", "none", r)
            /\ isProcessing' = TRUE
            /\ now' = IF needNew THEN newId ELSE now
            /\ deals' = IF needNew
                        THEN createNewDealRoom(deals, newId,
                                               Str("New Deal (Pending Analysis)"))
                        ELSE deals
            /\ activeDealId' = ctx
            /\ activeEdge' = "MD-DILIGENCE"
            /\ agents' = runStepBegin(agents, StepRole("extract"),
                                      Descr("document", "extract"))
            /\ runs' = [runs EXCEPT ![r] = BeginStep(rr, "extract")]
    /\ UNCHANGED <<logs, currentView, portfolio, fileRead>>

AfterExtract(r) ==
    /\ UNCHANGED svcVars
    /\ runs[r].kind = "document" /\ runs[r].pc = "extract"
    /\ \E out \in Work("extract", runs[r]) :
        LET rr == Settled(runs[r], out)
            ret == rr.lastRet
            next == NextStep(rr.kind, "extract")
        IN  IF ret.ok
            THEN /\ logs' = SL(r, out)
                 /\ agents' = runStepBegin(SA(r, out), StepRole(next),
                                           Descr(rr.kind, next))
                 /\ activeEdge' = "DILIGENCE-ASSOCIATE"
                 /\ runs' = [runs EXCEPT ![r] =
                               BeginStep([rr EXCEPT
                                    !.fallbackName =
                                        OrDefault(ret.value.f, "companyName", Str("Target")),
                                    !.titleOverride =
                                        IF "companyName" \in DOMAIN ret.value.f
                                        THEN ret.value.f.companyName ELSE Null],
                                    next)]
                 /\ UNCHANGED <<deals, messages, activeDealId, currentView,
                                isProcessing, portfolio, now, fileRead>>
            ELSE AbortRun(r, rr, SL(r, out), SA(r, out), ret.error)

\* setDeals(prev => prev.map(d => d.id === dealContextId ? {...d, stage} : d))
SetStage(ds, id, stage) ==
    [i \in DOMAIN ds |-> IF ds[i].id = id THEN [ds[i] EXCEPT !.stage = stage] ELSE ds[i]]

AfterDocStructure(r) ==
    /\ UNCHANGED svcVars
    /\ runs[r].kind = "document" /\ runs[r].pc = "structure"
    /\ \E out \in Work("structure", runs[r]) :
        LET rr == Settled(runs[r], out)
            ret == rr.lastRet
            next == NextStep(rr.kind, "structure")
        IN  IF ret.ok
            THEN /\ logs' = SL(r, out)
                 /\ deals' = SetStage(
                        updateActiveDeal(deals, rr.closureDealId, ret.value.f,
                                         rr.titleOverride),
                        rr.dealContextId, "Diligence")
                 /\ agents' = runStepBegin(
                        updateAgent(SA(r, out), "MD",
                            [status |-> "thinking",
                             currentTask |-> "Reviewing Diligence Findings..."]),
                        StepRole(next), Descr(rr.kind, next))
                 /\ activeEdge' = "ASSOCIATE-MD"
                 /\ runs' = [runs EXCEPT ![r] =
                               BeginStep([rr EXCEPT !.sd = ret.value.f,
                                    !.structured = ret.value.f,
                                    !.committed = DealExists(rr.closureDealId)],
                                         next)]
                 /\ UNCHANGED <<messages, activeDealId, currentView, isProcessing,
                                portfolio, now, fileRead>>
            ELSE AbortRun(r, rr, SL(r, out), SA(r, out), ret.error)

\* ------------------------------------------------ handlePortfolioIngest
\* "INGEST PORTCO DATA" (disabled while isProcessing) and the file dialog:
\* handleFileChange starts reading the picked files.
IngestPick ==
    /\ UNCHANGED svcVars
    /\ currentView = "portfolio"
    /\ ~isProcessing
    /\ ~fileRead.pending
    /\ \E r \in RunIds : Fresh(r)
    /\ fileRead' = [pending |-> TRUE, closureDealId |-> activeDealId]
    /\ UNCHANGED <<agents, logs, deals, messages, activeDealId, currentView,
                   isProcessing, activeEdge, portfolio, runs, now>>

\* The files are read: onIngest(files), handlePortfolioIngest up to the await.
IngestStart(r) ==
    /\ UNCHANGED svcVars
    /\ Fresh(r)
    /\ fileRead.pending
    /\ \E tid \in generateTraceId :
        LET rr == [EmptyRun EXCEPT !.kind = "ingest", !.traceId = tid,
                                   !.closureDealId = fileRead.closureDealId]
        IN  /\ runs' = [runs EXCEPT ![r] = BeginStep(rr, "ingest")]
            /\ messages' = addMessage(messages, rr.closureDealId, "system",
                                      <<"Ingesting portfolio documents...">>,
                                      "SYSTEM", "none", r)
    /\ isProcessing' = TRUE
    /\ activeEdge' = "VP-DILIGENCE"
    /\ agents' = runStepBegin(agents, StepRole("ingest"), Descr("ingest", "ingest"))
    /\ fileRead' = [pending |-> FALSE, closureDealId |-> 0]
    /\ UNCHANGED <<logs, deals, activeDealId, currentView, portfolio, now>>

AfterIngest(r) ==
    /\ UNCHANGED svcVars
    /\ runs[r].kind = "ingest" /\ runs[r].pc = "ingest"
    /\ \E out \in Work("ingest", runs[r]) :
        LET rr == Settled(runs[r], out)
            ret == rr.lastRet
        IN  /\ logs' = SL(r, out)
            /\ agents' = SA(r, out)
            /\ portfolio' = IF ret.ok THEN portfolio \o ret.value.a ELSE portfolio
            /\ messages' =
                 IF ret.ok
                 THEN addMessage(messages, rr.closureDealId, "system",
                                 <<"Successfully onboarded companies to Portfolio Command.">>,
                                 "SYSTEM", "none", r)
                 ELSE addMessage(messages, rr.closureDealId, "system",
                                 <<"Portfolio ingestion failed. See logs.">>,
                                 "SYSTEM", "none", r)
            /\ runs' = [runs EXCEPT ![r] =
                          FinishRun(rr, IF ret.ok THEN "ok" ELSE "failed")]
    /\ isProcessing' = FALSE
    /\ activeEdge' = "null"
    /\ UNCHANGED <<deals, activeDealId, currentView, now, fileRead>>

\* ------------------------------------------ handleDeliverableGeneration
\* d.data.deliverables?.map(del => del.id === id ? f(del) : del) on the deal
\* with the closure's activeDealId; upd is the record of replaced fields.
MapDeliverable(ds, closureDealId, id, upd) ==
    [i \in DOMAIN ds |->
        IF ds[i].id = closureDealId /\ "deliverables" \in DOMAIN ds[i].data
        THEN [ds[i] EXCEPT !.data.deliverables =
                Arr([j \in DOMAIN @.a |->
                        IF @.a[j].id = id THEN Merge(@.a[j], upd) ELSE @.a[j]])]
        ELSE ds[i]]

\* currentDeal.data.deliverables || []
DeliverablesOf(data) ==
    IF "deliverables" \in DOMAIN data /\ Truthy(data.deliverables)
    THEN data.deliverables.a ELSE <<>>

\* A generate button of the Deliverables tab (DealDashboard is rendered when
\* the active deal exists), then handleDeliverableGeneration up to the await.
GenerateDeliverable(r) ==
    /\ UNCHANGED svcVars
    /\ Fresh(r)
    /\ activeDealId # 0
    /\ \E i \in DOMAIN deals :
        /\ deals[i].id = activeDealId
        /\ \A j \in DOMAIN deals : deals[j].id = activeDealId => i <= j
        /\ \E tid \in generateTraceId :
            runs' = [runs EXCEPT ![r] =
                BeginStep([EmptyRun EXCEPT !.kind = "deliverable", !.traceId = tid,
                              !.closureDealId = activeDealId,
                              !.roomId = activeDealId,
                              !.snapTitle = deals[i].title,
                              !.snapDeliverables = DeliverablesOf(deals[i].data)],
                          "content")]
    /\ agents' = runStepBegin(
            updateAgent(agents, "DESIGN",
                [status |-> "thinking", currentTask |-> "Drafting content structure..."]),
            StepRole("content"), Descr("deliverable", "content"))
    /\ UNCHANGED <<logs, deals, messages, activeDealId, currentView, isProcessing,
                   activeEdge, portfolio, now, fileRead>>

\* "Final Status Update" and the closing message of handleDeliverableGeneration.
FinalizeDeliverable(ds, closureDealId, id) ==
    MapDeliverable(ds, closureDealId, id, [status |-> "completed"])

AfterContent(r) ==
    /\ UNCHANGED svcVars
    /\ runs[r].kind = "deliverable" /\ runs[r].pc = "content"
    /\ \E out \in Work("content", runs[r]) :
        LET rr == Settled(runs[r], out)
            ret == rr.lastRet
        IN  IF ret.ok
            THEN LET id == now + 1
                     newDeliverable == [id |-> id, title |-> rr.snapTitle,
                                        status |-> "rendering", slides |-> ret.value.a]
                     ds1 == updateActiveDeal(deals, rr.closureDealId,
                               [deliverables |->
                                   Arr(Append(rr.snapDeliverables, newDeliverable))],
                               Null)
                     rr1 == [rr EXCEPT !.delivId = id, !.slides = ret.value.a,
                                       !.slideIdx = 1]
                 IN  /\ now' = id
                     /\ logs' = SL(r, out)
                     /\ IF Len(ret.value.a) >= 1
                        THEN /\ deals' = ds1
                             /\ agents' = runStepBegin(SA(r, out), StepRole("slide"),
                                                       Descr(rr.kind, "slide"))
                             /\ runs' = [runs EXCEPT ![r] = BeginStep(rr1, "slide")]
                             /\ UNCHANGED messages
                        ELSE /\ deals' = FinalizeDeliverable(ds1, rr.closureDealId, id)
                             /\ agents' = SA(r, out)
                             /\ messages' = addMessage(messages, rr.closureDealId,
                                    "system", <<"deliverable has been generated">>,
                                    "undefined", "none", r)
                             /\ runs' = [runs EXCEPT ![r] =
                                           [DropLocals(rr1) EXCEPT !.pc = "timer", !.result = "ok"]]
                     /\ UNCHANGED <<activeDealId, currentView, isProcessing,
                                    activeEdge, portfolio, fileRead>>
            ELSE /\ logs' = SL(r, out)
                 /\ agents' = SA(r, out)
                 /\ runs' = [runs EXCEPT ![r] =
                               [DropLocals(rr) EXCEPT !.pc = "timer", !.result = "failed",
                                          !.error = ret.error.message]]
                 /\ UNCHANGED <<deals, messages, activeDealId, currentView,
                                isProcessing, activeEdge, portfolio, now, fileRead>>

AfterSlide(r) ==
    /\ UNCHANGED svcVars
    /\ runs[r].kind = "deliverable" /\ runs[r].pc = "slide"
    /\ \E out \in Work("slide", runs[r]) :
        LET rr == Settled(runs[r], out)
            ret == rr.lastRet
            i == rr.slideIdx
            updatedSlides == IF ret.ok /\ Truthy(ret.value)
                             THEN [rr.slides EXCEPT ![i] = "img"] ELSE rr.slides
            ds1 == IF ret.ok /\ Truthy(ret.value)
                   THEN MapDeliverable(deals, rr.closureDealId, rr.delivId,
                                       [slides |-> updatedSlides])
                   ELSE deals
            rr1 == [rr EXCEPT !.slides = updatedSlides, !.slideIdx = i + 1]
        IN  IF ~ret.ok
            THEN /\ logs' = SL(r, out)
                 /\ agents' = SA(r, out)
                 /\ runs' = [runs EXCEPT ![r] =
                               [DropLocals(rr) EXCEPT !.pc = "timer", !.result = "failed",
                                          !.error = ret.error.message]]
                 /\ UNCHANGED <<deals, messages>>
            ELSE IF i < Len(rr.slides)
            THEN /\ logs' = SL(r, out)
                 /\ deals' = ds1
                 /\ agents' = runStepBegin(SA(r, out), StepRole("slide"),
                                           Descr(rr.kind, "slide"))
                 /\ runs' = [runs EXCEPT ![r] = BeginStep(rr1, "slide")]
                 /\ UNCHANGED messages
            ELSE /\ logs' = SL(r, out)
                 /\ deals' = FinalizeDeliverable(ds1, rr.closureDealId, rr.delivId)
                 /\ agents' = SA(r, out)
                 /\ messages' = addMessage(messages, rr.closureDealId, "system",
                                           <<"deliverable has been generated">>,
                                           "undefined", "none", r)
                 /\ runs' = [runs EXCEPT ![r] =
                               [DropLocals(rr1) EXCEPT !.pc = "timer", !.result = "ok"]]
    /\ UNCHANGED <<activeDealId, currentView, isProcessing, activeEdge, portfolio,
                   now, fileRead>>

\* setTimeout(() => updateAgent(DESIGN, { status: IDLE }), 3000) of finally.
DeliverableTimer(r) ==
    /\ UNCHANGED svcVars
    /\ runs[r].kind = "deliverable" /\ runs[r].pc = "timer"
    /\ agents' = updateAgent(agents, "DESIGN", [status |-> "idle"])
    /\ runs' = [runs EXCEPT ![r].pc = "done"]
    /\ UNCHANGED <<logs, deals, messages, activeDealId, currentView, isProcessing,
                   activeEdge, portfolio, now, fileRead>>

\* ---------------------------------------------------------- specification
Next ==
    \/ NavPipeline
    \/ NavPortfolio
    \/ SelectDeal
    \/ CreateDeal
    \/ \E r \in RunIds : SubmitSourcing(r)
    \/ \E r \in RunIds : AfterStrategy(r)
    \/ \E r \in RunIds : AfterScout(r)
    \/ \E r \in RunIds : AfterSelect(r)
    \/ \E r \in RunIds : AfterDeepDive(r)
    \/ \E r \in RunIds : AfterStructure(r)
    \/ \E r \in RunIds : AfterLocation(r)
    \/ \E r \in RunIds : AfterImage(r)
    \/ \E r \in RunIds : AfterOpinion(r)
    \/ \E r \in RunIds : SubmitDocument(r)
    \/ \E r \in RunIds : AfterExtract(r)
    \/ \E r \in RunIds : AfterDocStructure(r)
    \/ IngestPick
    \/ \E r \in RunIds : IngestStart(r)
    \/ \E r \in RunIds : AfterIngest(r)
    \/ \E r \in RunIds : GenerateDeliverable(r)
    \/ \E r \in RunIds : AfterContent(r)
    \/ \E r \in RunIds : AfterSlide(r)
    \/ \E r \in RunIds : DeliverableTimer(r)

Spec == Init /\ [][Next]_vars

\* The model call a pipeline run r awaits settles and the handler continues.
PipelineSettles(r) ==
    \/ AfterStrategy(r)
    \/ AfterScout(r)
    \/ AfterSelect(r)
    \/ AfterDeepDive(r)
    \/ AfterStructure(r)
    \/ AfterLocation(r)
    \/ AfterImage(r)
    \/ AfterOpinion(r)
    \/ AfterExtract(r)
    \/ AfterDocStructure(r)
    \/ AfterIngest(r)

\* The application where every awaited model call of a pipeline run
\* eventually resolves or rejects.
LiveSpec == Init /\ [][Next]_vars /\ \A r \in RunIds : WF_vars(PipelineSettles(r))

\* ------------------------------------------- one image generation call
\* img traces one call of generateConceptImage / generateSlideDesign: the
\* requests sent so far (calls) and what the two model calls are going to do.
ImgInit ==
    /\ AppInit
    /\ json = NoCall /\ norm = NoCall /\ store = NoCall
    /\ img \in [pc : {"start"}, kind : ImageKinds, primary : ImageApiOutcomes,
                fallback : ImageApiOutcomes, calls : {<<>>}, result : {NoCall}]

\* try { await generateWithModel('gemini-3-pro-image-preview', true)
ImgCallPrimary ==
    /\ img.pc = "start"
    /\ img' = [img EXCEPT !.pc = "primary",
                 !.calls = Append(@, generateWithModel(img.kind, PrimaryImageModel, TRUE))]
    /\ UNCHANGED <<appVars, json, norm, store>>

\* The primary call settles: return, or catch and start the fallback call.
ImgPrimarySettles ==
    /\ img.pc = "primary"
    /\ img' = IF img.primary.ok
              THEN [img EXCEPT !.pc = "done", !.result = ImageAfterPrimary(img.primary)]
              ELSE IF IsAccessError(img.primary.error)
              THEN [img EXCEPT !.pc = "fallback",
                       !.calls = Append(@, generateWithModel(img.kind,
                                                FallbackImageModel, FALSE))]
              ELSE [img EXCEPT !.pc = "done", !.result = Resolved(Null)]
    /\ UNCHANGED <<appVars, json, norm, store>>

\* The fallback call settles.
ImgFallbackSettles ==
    /\ img.pc = "fallback"
    /\ img' = [img EXCEPT !.pc = "done", !.result = ImageAfterFallback(img.fallback)]
    /\ UNCHANGED <<appVars, json, norm, store>>

ImgNext == ImgCallPrimary \/ ImgPrimarySettles \/ ImgFallbackSettles

ImageSpec == ImgInit /\ [][ImgNext]_vars

\* ------------------------------------- one response text through the parser
\* Response texts: JSON documents, wrapped in prose and fences or cut short.
Q == "\""

\* {"companyName":"Acme","ebitda":12,"lboModel":{"irr":25,"moic":3}}
DealDocument ==
    <<"{", Q, "companyName", Q, ":", Q, "Acme", Q, ",",
      Q, "ebitda", Q, ":", "1", "2", ",",
      Q, "lboModel", Q, ":", "{", Q, "irr", Q, ":", "2", "5", ",",
      Q, "moic", Q, ":", "3", "}", "}">>

\* {"note":"see [1\" x","tags":["a",true,null],"n":0}
NoteDocument ==
    <<"{", Q, "note", Q, ":", Q, "see", " ", "[", "1", "\\", Q, " ", "x", Q, ",",
      Q, "tags", Q, ":", "[", Q, "a", Q, ",", "true", ",", "null", "]", ",",
      Q, "n", Q, ":", "0", "}">>

\* [{"name":"Acme"},[],7]
ListDocument ==
    <<"[", "{", Q, "name", Q, ":", Q, "Acme", Q, "}", ",", "[", "]", ",", "7", "]">>

JsonDocuments == {DealDocument, NoteDocument, ListDocument}

LeadingProse ==
    {<<>>, <<"Here", " ", "you", " ", "go", " ">>, <<Fence, "json", " ">>,
     <<"Sure", " ", Fence, " ">>, <<"Option", " ", "[", "1", "]", " ">>}

TrailingProse ==
    {<<>>, <<" ">>, <<" ", Fence>>, <<" ", Fence, " ", "Thanks">>, <<" ", "Thanks">>}

\* The cut points of a document: after its second character and before its
\* end, never between a backslash and the character it escapes.
CutPoints(d) == {k \in 3..(Len(d) - 1) : d[k] # "\\"}

JsonInputs ==
    {[case |-> "embedded", doc |-> d, text |-> l \o d \o r] :
        d \in JsonDocuments, l \in LeadingProse, r \in TrailingProse}
    \cup UNION {{[case |-> "truncated", doc |-> d, text |-> SubSeq(d, 1, k)] :
                    k \in CutPoints(d)} : d \in JsonDocuments}
    \cup {[case |-> "empty", doc |-> <<>>, text |-> <<>>]}

\* One call of cleanAndParseJSON step by step; repairs counts the calls of
\* repairJSON whose result is parsed.
JsonInit ==
    /\ AppInit
    /\ img = NoCall
    /\ norm = NoCall
    /\ store = NoCall
    /\ json \in {[pc |-> "start", case |-> in.case, doc |-> in.doc, text |-> in.text,
                  cleanText |-> <<>>, repaired |-> <<>>, repairs |-> 0,
                  first |-> NoCall, result |-> NoCall, data |-> NoCall] :
                    in \in JsonInputs}

\* if (!text) return {}; strip the fences, find the start of the JSON.
JsonClean ==
    /\ json.pc = "start"
    /\ json' = IF Len(json.text) = 0
               THEN [json EXCEPT !.pc = "done", !.result = Resolved(Obj(EmptyObj))]
               ELSE [json EXCEPT !.pc = "clean", !.cleanText = CleanText(json.text)]
    /\ UNCHANGED <<appVars, img, norm, store>>

\* try { return JSON.parse(cleanText) }
JsonParseDirect ==
    /\ json.pc = "clean"
    /\ LET first == JSONparse(json.cleanText)
       IN  json' = IF first.ok
                   THEN [json EXCEPT !.pc = "done", !.first = first,
                                     !.result = Resolved(first.value)]
                   ELSE [json EXCEPT !.pc = "catch", !.first = first]
    /\ UNCHANGED <<appVars, img, norm, store>>

\* catch (e) { try { return JSON.parse(repairJSON(cleanText)) }
\*             catch { throw new Error(...) } }
JsonParseRepaired ==
    /\ json.pc = "catch"
    /\ LET repaired == repairJSON(json.cleanText)
           second == JSONparse(repaired)
       IN  json' = [json EXCEPT !.pc = "done", !.repaired = repaired,
                                !.repairs = @ + 1,
                                !.result = IF second.ok THEN Resolved(second.value)
                                           ELSE Rejected(JSONParseFailed(json.first.error))]
    /\ UNCHANGED <<appVars, img, norm, store>>

\* generateDealStructure: return sanitizeDealData(rawData, companyName)
JsonSanitize ==
    /\ json.pc = "done"
    /\ json.result.ok
    /\ json.result.value.t # "null"
    /\ json' = [json EXCEPT !.pc = "sanitized",
                            !.data = sanitizeDealData(
                                        IF json.result.value.t = "obj"
                                        THEN json.result.value.f ELSE EmptyObj,
                                        Str("Acme"))]
    /\ UNCHANGED <<appVars, img, norm, store>>

JsonNext == JsonClean \/ JsonParseDirect \/ JsonParseRepaired \/ JsonSanitize

JsonSpec == JsonInit /\ [][JsonNext]_vars

\* --------------------------------------- one parsed object through the
\* normalizer: Init draws the parsed object, the action applies
\* sanitizeDealData.
DealFields ==
    {"companyName", "sector", "location", "ebitda", "revenue", "askingMultiple",
     "impliedValue", "financialModels", "lboModel", "lboDetailed", "memo",
     "sensitivityAnalysis", "comparables", "candidatesAnalyzed", "groundingUrls",
     "deliverables"}

TextFields == {"companyName", "sector", "location"}
NumberFields == {"ebitda", "revenue", "askingMultiple", "impliedValue"}
ObjectFields == {"financialModels", "lboModel", "lboDetailed", "memo"}
ListFields ==
    {"sensitivityAnalysis", "comparables", "candidatesAnalyzed", "groundingUrls",
     "deliverables"}

FinancialRow == Obj([label |-> Str("Revenue"), values |-> Arr(<<Num(40)>>)])

\* A parsed object with every field of the response schema.
FullRecord ==
    [companyName |-> Str("Acme"),
     sector |-> Str("Industrials"),
     location |-> Str("Austin"),
     ebitda |-> Num(12),
     revenue |-> Num(40),
     askingMultiple |-> Num(8),
     impliedValue |-> Num(96),
     financialModels |->
        Obj([years |-> Arr(<<Str("2023"), Str("2024")>>),
             incomeStatement |-> Obj([title |-> Str("Income Statement"),
                                      rows |-> Arr(<<FinancialRow>>)]),
             balanceSheet |-> Obj([title |-> Str("Balance Sheet"),
                                   rows |-> Arr(<<FinancialRow>>)]),
             cashFlow |-> Obj([title |-> Str("Cash Flow"),
                               rows |-> Arr(<<FinancialRow>>)])]),
     lboModel |-> Obj([entryMultiple |-> Num(8), exitMultiple |-> Num(10),
                       irr |-> Num(25), moic |-> Num(3), debttoEquity |-> Num(2)]),
     lboDetailed |->
        Obj([assumptions |-> Arr(<<Str("Exit in year 5")>>),
             sources |-> Arr(<<Str("Senior debt")>>),
             uses |-> Arr(<<Str("Purchase price")>>),
             debtSchedule |-> Obj([title |-> Str("Debt Schedule"),
                                   rows |-> Arr(<<FinancialRow>>)]),
             projectedReturns |-> Obj([title |-> Str("Returns"),
                                       rows |-> Arr(<<FinancialRow>>)])]),
     memo |-> Obj(Merge(defaultMemo,
                        [executiveSummary |-> Str("Summary"),
                         investmentRecommendation |-> Str("BUY"),
                         keyRisks |-> Arr(<<Str("Churn")>>)])),
     sensitivityAnalysis |-> Arr(<<Obj([exitMultiple |-> Num(10), irr |-> Num(25)])>>),
     comparables |-> Arr(<<Obj([name |-> Str("Peer")])>>),
     candidatesAnalyzed |-> Arr(<<Str("Acme")>>),
     groundingUrls |-> Arr(<<Str("https://acme.example")>>),
     deliverables |-> Arr(<<>>)]

\* A nested object with only one of its documented fields.
PartialObject(k) ==
    CASE k = "financialModels" -> Obj([years |-> Arr(<<Str("2024")>>)])
      [] k = "lboModel" -> Obj([irr |-> Num(25)])
      [] k = "lboDetailed" -> Obj([assumptions |-> Arr(<<Str("Exit in year 5")>>)])
      [] k = "memo" -> Obj([executiveSummary |-> Str("")])

\* The shapes a field of the parsed object takes: absent; the valid value;
\* the empty value of its type (0, "", [] or {}); null; a value of the wrong
\* type; for object fields an object with a subset of its fields.
FieldShapes(k) ==
    {"absent", "valid", "empty", "null", "wrongType"}
        \cup IF k \in ObjectFields THEN {"partial"} ELSE {}

ShapedValue(k, shape) ==
    CASE shape = "valid" -> FullRecord[k]
      [] shape = "empty" ->
            IF k \in TextFields THEN Str("")
            ELSE IF k \in NumberFields THEN Num(0)
            ELSE IF k \in ListFields THEN Arr(<<>>)
            ELSE Obj(EmptyObj)
      [] shape = "null" -> Null
      [] shape = "wrongType" ->
            IF k \in TextFields \cup ObjectFields THEN Num(7) ELSE Str("n/a")
      [] shape = "partial" -> PartialObject(k)

Without(f, k) == [x \in DOMAIN f \ {k} |-> f[x]]

\* The parsed object: base with field k in the given shape.
ShapedRecord(base, k, shape) ==
    IF shape = "absent" THEN Without(base, k)
    ELSE Merge(base, (k :> ShapedValue(k, shape)))

NormInit ==
    /\ AppInit
    /\ img = NoCall
    /\ json = NoCall
    /\ store = NoCall
    /\ \E k \in DealFields :
          norm \in {[pc |-> "start", field |-> k, shape |-> sh,
                     parsed |-> ShapedRecord(base, k, sh),
                     companyName |-> name, data |-> NoCall] :
                       base \in {EmptyObj, FullRecord},
                       sh \in FieldShapes(k),
                       name \in {Str("Acme"), Str("")}}

\* const data = sanitizeDealData(rawJSON, companyName)
NormSanitize ==
    /\ norm.pc = "start"
    /\ norm' = [norm EXCEPT !.pc = "done",
                            !.data = sanitizeDealData(norm.parsed, norm.companyName)]
    /\ UNCHANGED <<appVars, img, json, store>>

NormNext == NormSanitize

NormSpec == NormInit /\ [][NormNext]_vars

\* ------------------------------------- localStorage and the page life cycle
\* The persisted slices of App and their keys.
Slices ==
    {"agents", "firmProfile", "deals", "messages", "logs", "currentView", "portfolio"}

StoreKey(s) ==
    CASE s = "agents" -> "didi_agents"
      [] s = "firmProfile" -> "didi_firmProfile"
      [] s = "deals" -> "didi_deals"
      [] s = "messages" -> "didi_messages"
      [] s = "logs" -> "didi_logs"
      [] s = "currentView" -> "didi_currentView"
      [] s = "portfolio" -> "didi_portfolio"

LegacyKey == "didi_dealData"

StoreKeys == {StoreKey(s) : s \in Slices} \cup {LegacyKey}

\* getItem returns null or the stored string.
Text(x) == [t |-> "text", x |-> x]

\* saved ? ... : ...  -- null and the empty string are falsy.
Saved(item) == item.t = "text" /\ Len(item.x) > 0

\* new Date() at page load and in the handlers after it.
BootStamp == "2025-01-01T09:00:00.000Z"
LaterStamp == "2025-01-02T09:00:00.000Z"

RoleOrder == <<"MD", "VP", "ASSOCIATE", "SCOUT", "DILIGENCE", "COMPS", "DESIGN">>

StoredAgent(role, status) ==
    Obj([role |-> Str(role), status |-> Str(status), currentTask |-> Undefined])

\* The agents slice with the given roles working and the others idle.
AgentsValue(working) ==
    Arr([i \in DOMAIN RoleOrder |->
            StoredAgent(RoleOrder[i],
                        IF RoleOrder[i] \in working THEN "working" ELSE "idle")])

DEFAULT_PROFILE ==
    Obj([fundName |-> Str("DiDi Capital"), fundType |-> Str("Private Equity"),
         targetSectors |-> Arr(<<Str("Industrials")>>)])

InitialMessage ==
    Obj([id |-> Str("0"), dealId |-> Null, role |-> Str("system"),
         content |-> Str("DiDi AI System initialized."),
         timestamp |-> Date(BootStamp), sender |-> Str("SYSTEM")])

\* The value a slice starts with when nothing usable is stored.
DefaultSlice(s) ==
    CASE s = "agents" -> AgentsValue({})
      [] s = "firmProfile" -> DEFAULT_PROFILE
      [] s = "messages" -> Arr(<<InitialMessage>>)
      [] s = "currentView" -> Str("pipeline")
      [] OTHER -> Arr(<<>>)

\* try { saved ? JSON.parse(saved, reviver) : dflt } catch { dflt }
HydrateParsed(item, revive, dflt) ==
    IF ~Saved(item) THEN dflt
    ELSE LET r == JSONparse(item.x)
         IN  IF ~r.ok THEN dflt ELSE IF revive THEN Revive(r.value) ELSE r.value

\* The deal room the migration wraps around the legacy deal object.
LegacyRoom(parsed) ==
    Obj([id |-> Str("legacy-migration"), title |-> parsed.f.companyName,
         stage |-> Str("Diligence"), data |-> parsed,
         createdAt |-> Date(BootStamp), lastUpdated |-> Date(BootStamp),
         tags |-> Arr(<<Str("Migrated")>>), priority |-> Str("Medium")])

\* parsed && parsed.companyName
HasCompanyName(parsed) ==
    /\ parsed.t = "obj"
    /\ "companyName" \in DOMAIN parsed.f
    /\ Truthy(parsed.f.companyName)

\* Variant: the legacy key is looked at first.
HydrateDeals_LegacyFirst(ls) ==
    IF Saved(ls[LegacyKey]) /\ JSONparse(ls[LegacyKey].x).ok
          /\ HasCompanyName(Revive(JSONparse(ls[LegacyKey].x).value))
    THEN [from |-> "legacy",
          value |-> Arr(<<LegacyRoom(Revive(JSONparse(ls[LegacyKey].x).value))>>)]
    ELSE IF Saved(ls["didi_deals"]) /\ JSONparse(ls["didi_deals"].x).ok
    THEN [from |-> "deals", value |-> Revive(JSONparse(ls["didi_deals"].x).value)]
    ELSE [from |-> "default", value |-> Arr(<<>>)]

\* The initializer of the deals slice; from says where the value came from.
HydrateDeals(ls) ==
    IF Saved(ls["didi_deals"])
    THEN LET r == JSONparse(ls["didi_deals"].x)
         IN  IF r.ok THEN [from |-> "deals", value |-> Revive(r.value)]
             ELSE [from |-> "catch", value |-> Arr(<<>>)]
    ELSE IF Saved(ls[LegacyKey])
    THEN LET r == JSONparse(ls[LegacyKey].x)
         IN  IF ~r.ok THEN [from |-> "catch", value |-> Arr(<<>>)]
             ELSE IF HasCompanyName(Revive(r.value))
             THEN [from |-> "legacy", value |-> Arr(<<LegacyRoom(Revive(r.value))>>)]
             ELSE [from |-> "default", value |-> Arr(<<>>)]
    ELSE [from |-> "default", value |-> Arr(<<>>)]

\* The initializer of currentView: the stored string itself, without parsing.
HydrateView(item) ==
    IF ~Saved(item) THEN Str("pipeline")
    ELSE IF item.x = <<"deal">> THEN Str("pipeline")
    ELSE Str(StringOf(item.x))

\* The useState initializers of App, run on the stored items ls.
Hydrate(ls) ==
    [s \in Slices |->
        CASE s = "agents" -> HydrateParsed(ls["didi_agents"], FALSE, DefaultSlice(s))
          [] s = "firmProfile" ->
                HydrateParsed(ls["didi_firmProfile"], FALSE, DefaultSlice(s))
          [] s = "deals" -> HydrateDeals(ls).value
          [] s = "messages" -> HydrateParsed(ls["didi_messages"], TRUE, DefaultSlice(s))
          [] s = "logs" -> HydrateParsed(ls["didi_logs"], TRUE, DefaultSlice(s))
          [] s = "currentView" -> HydrateView(ls["didi_currentView"])
          [] s = "portfolio" ->
                HydrateParsed(ls["didi_portfolio"], FALSE, DefaultSlice(s))]

\* The body of App throws while rendering: firmProfile.fundName and
\* firmProfile.targetSectors.join (INITIAL_MESSAGES), messages.filter,
\* deals.find.
RenderThrows(mem) ==
    \/ ~(/\ mem["firmProfile"].t = "obj"
         /\ "targetSectors" \in DOMAIN mem["firmProfile"].f
         /\ mem["firmProfile"].f.targetSectors.t = "arr")
    \/ mem["messages"].t # "arr"
    \/ mem["deals"].t # "arr"

\* The string the persistence effect of slice s stores for value v.
StoredItem(s, v) ==
    IF s = "currentView" THEN Text(<<v.s>>) ELSE Text(Stringify(v))

\* Variant: the effect of every slice runs after every render.
PersistenceEffects_All(ls, mem, changed, failing) ==
    [k \in StoreKeys |->
        IF \E s \in Slices \ failing : StoreKey(s) = k
        THEN StoredItem(CHOOSE s \in Slices : StoreKey(s) = k,
                        mem[CHOOSE s \in Slices : StoreKey(s) = k])
        ELSE ls[k]]

\* The persistence effects after a render in which the slices in changed got
\* a new value; setItem throws for the slices in failing and the effect
\* swallows it.
PersistenceEffects(ls, mem, changed, failing) ==
    [k \in StoreKeys |->
        IF \E s \in changed \ failing : StoreKey(s) = k
        THEN StoredItem(CHOOSE s \in changed : StoreKey(s) = k,
                        mem[CHOOSE s \in changed : StoreKey(s) = k])
        ELSE ls[k]]

\* No slice value while no page is loaded.
NoMem == [s \in Slices |-> Undefined]

\* Values of the slices a former session may have stored.
UserRoom ==
    Obj([id |-> Str("1735722000000"), title |-> Str("Acme"), stage |-> Str("Sourcing"),
         createdAt |-> Date(LaterStamp), lastUpdated |-> Date(LaterStamp),
         tags |-> Arr(<<>>), priority |-> Str("Medium"),
         data |-> Obj([companyName |-> Str("Acme"), ebitda |-> Num(0)])])

UserMessage ==
    Obj([id |-> Str("1735722000001"), dealId |-> Null, role |-> Str("user"),
         content |-> Str("Find targets"), timestamp |-> Date(LaterStamp),
         sender |-> Undefined])

StoredLogEntry ==
    Obj([id |-> Str("1735722000002"), traceId |-> Str("TR1"),
         timestamp |-> Date(LaterStamp), role |-> Str("MD"),
         message |-> Str("Completed"), status |-> Str("completed")])

StoredCompany == Obj([id |-> Str("pc-1"), name |-> Str("Acme")])

LegacyDeal == Obj([companyName |-> Str("Legacy Co"), ebitda |-> Num(12)])

ValidStored(s) ==
    CASE s = "agents" -> {AgentsValue({}), AgentsValue({"MD"})}
      [] s = "firmProfile" ->
            {Obj([fundName |-> Str("Other Fund"), fundType |-> Str("Venture"),
                  targetSectors |-> Arr(<<>>)])}
      [] s = "deals" -> {Arr(<<UserRoom>>)}
      [] s = "messages" -> {Arr(<<InitialMessage, UserMessage>>)}
      [] s = "logs" -> {Arr(<<StoredLogEntry>>)}
      [] s = "currentView" -> {Str("portfolio")}
      [] s = "portfolio" -> {Arr(<<StoredCompany>>)}

\* What may be found under the key of slice s at the first page load:
\* nothing, the empty string, text that is not JSON, JSON of another shape,
\* or what the effect of the slice stored.
StoredAlternatives(s) ==
    {Null} \cup {StoredItem(s, v) : v \in ValidStored(s)}
        \cup IF s = "currentView"
             THEN {Text(<<"deal">>), Text(<<"settings">>)}
             ELSE {Text(<<"{", "oops">>), Text(<<"null">>), Text(<<"{", "}">>)}

LegacyAlternatives ==
    {Null, Text(<<"{", "oops">>), Text(Stringify(LegacyDeal)),
     Text(Stringify(Obj([sector |-> Str("Industrials")])))}

\* The stores a first page load may find: one key in any of its
\* alternatives, or the deals key and the legacy key in any of theirs, the
\* other keys absent.
InitialStores ==
    UNION {{[k \in StoreKeys |-> IF k = StoreKey(s) THEN a ELSE Null] :
               a \in StoredAlternatives(s)} : s \in Slices}
    \cup {[k \in StoreKeys |->
              IF k = "didi_deals" THEN d ELSE IF k = LegacyKey THEN g ELSE Null] :
            d \in StoredAlternatives("deals"), g \in LegacyAlternatives}

\* pc: "down" (no page), "up" (page running), "crashed" (render threw),
\* "confirm" (resetState waits in confirm()), "unloading" (reload requested,
\* the old page still runs its callbacks). full: the quota of the origin is
\* used up, so that setItem throws. History: boots counts the page loads;
\* from says where the last load took the deals from; reset holds from a
\* confirmed reset until the next page load; changed holds the slices the
\* last step called the setters of.
StoreInit ==
    /\ AppInit
    /\ img = NoCall
    /\ json = NoCall
    /\ norm = NoCall
    /\ store \in {[pc |-> "down", ls |-> l, mem |-> NoMem, running |-> FALSE,
                   full |-> full, boots |-> 0, from |-> "none", reset |-> FALSE,
                   changed |-> {}] :
                     l \in InitialStores, full \in BOOLEAN}

\* The slices whose setItem throws in a round of effects for the slices in
\* changed.
Failing(changed) == IF store.full THEN changed ELSE {}

\* Page load: the initializers run, App renders, and the persistence effects
\* of all slices run after the first render.
Startup ==
    /\ store.pc = "down"
    /\ store.boots < MaxBoots
    /\ \E mem \in {Hydrate(store.ls)} :
       \E from \in {HydrateDeals(store.ls).from} :
       \E stored \in {PersistenceEffects(store.ls, mem, Slices, Failing(Slices))} :
          store' = IF RenderThrows(mem)
                   THEN [store EXCEPT !.pc = "crashed", !.mem = mem,
                                      !.boots = @ + 1, !.from = from,
                                      !.reset = FALSE, !.changed = {}]
                   ELSE [store EXCEPT !.pc = "up", !.mem = mem,
                                      !.boots = @ + 1, !.from = from,
                                      !.reset = FALSE, !.changed = {},
                                      !.ls = stored]
    /\ UNCHANGED <<appVars, img, json, norm>>

\* The state after a handler gave the slices in changed the values of mem and
\* the persistence effects of the next render ran.
Mutated(mem, changed, running) ==
    \E m \in {mem} :
    \E stored \in {PersistenceEffects(store.ls, m, changed, Failing(changed))} :
       store' = [store EXCEPT !.mem = m,
                              !.ls = stored,
                              !.running = running,
                              !.changed = changed]

\* prev.map(a => a.role === role ? { ...a, ...updates } : a)
SetAgentStatus(agentsValue, roles, status, task) ==
    Arr([i \in DOMAIN agentsValue.a |->
            IF agentsValue.a[i].f.role.s \in roles
            THEN Obj(Merge(agentsValue.a[i].f,
                           [status |-> Str(status), currentTask |-> Str(task)]))
            ELSE agentsValue.a[i]])

IsAgentList(v) ==
    v.t = "arr" /\ \A i \in DOMAIN v.a : v.a[i].t = "obj" /\ "role" \in DOMAIN v.a[i].f

Appended(v, x) == Arr(Append(v.a, x))

\* The bound on the entries added by the handlers; had is the length the
\* list starts with.
HasRoom(v, had) == v.t = "arr" /\ Len(v.a) < had + MaxStoredItems

\* handleUserMessage starts: the user message is added, and the first runStep
\* sets the MD agent working before it awaits.
StoreRunStart ==
    /\ store.pc = "up"
    /\ ~store.running
    /\ IsAgentList(store.mem["agents"])
    /\ HasRoom(store.mem["messages"], 1)
    /\ HasRoom(store.mem["logs"], 0)
    /\ Mutated([store.mem EXCEPT
                    !["agents"] = SetAgentStatus(@, {"MD"}, "working", "Analyzing"),
                    !["messages"] = Appended(@, UserMessage)],
               {"agents", "messages"}, TRUE)
    /\ UNCHANGED <<appVars, img, json, norm>>

\* The first step of the run resolves: runStep appends its log entry and sets
\* its agent idle, the handler sets the VP agent working and the next runStep
\* the SCOUT agent. The continuation also runs in a page that is about to be
\* unloaded.
StoreRunStep ==
    /\ store.pc \in {"up", "unloading"}
    /\ store.running
    /\ HasRoom(store.mem["logs"], 0)
    /\ Mutated([store.mem EXCEPT
                    !["logs"] = Appended(@, StoredLogEntry),
                    !["agents"] = SetAgentStatus(
                                      SetAgentStatus(@, {"MD"}, "idle", "Standby"),
                                      {"VP", "SCOUT"}, "working", "Scanning")],
               {"logs", "agents"}, TRUE)
    /\ UNCHANGED <<appVars, img, json, norm>>

\* The last step of the run resolves: runStep appends its log entry and sets
\* its agent idle, as the steps before it did with theirs; the finally block
\* ends the run.
StoreRunEnd ==
    /\ store.pc \in {"up", "unloading"}
    /\ store.running
    /\ ~HasRoom(store.mem["logs"], 0)
    /\ Mutated([store.mem EXCEPT
                    !["logs"] = Appended(@, StoredLogEntry),
                    !["agents"] = SetAgentStatus(@, Roles, "idle", "Standby")],
               {"logs", "agents"}, FALSE)
    /\ UNCHANGED <<appVars, img, json, norm>>

\* createNewDealRoom
StoreCreateDeal ==
    /\ store.pc = "up"
    /\ HasRoom(store.mem["deals"], 0)
    /\ Mutated([store.mem EXCEPT !["deals"] = Appended(@, UserRoom)],
                           {"deals"}, store.running)
    /\ UNCHANGED <<appVars, img, json, norm>>

\* setCurrentView
StoreSetView ==
    /\ store.pc = "up"
    /\ \E view \in {"pipeline", "portfolio"} :
          /\ store.mem["currentView"] # Str(view)
          /\ Mutated([store.mem EXCEPT !["currentView"] = Str(view)],
                              {"currentView"}, store.running)
    /\ UNCHANGED <<appVars, img, json, norm>>

\* handlePortfolioIngest: setPortfolio(prev => [...prev, ...newCompanies])
StoreIngest ==
    /\ store.pc = "up"
    /\ HasRoom(store.mem["portfolio"], 0)
    /\ Mutated([store.mem EXCEPT !["portfolio"] = Appended(@, StoredCompany)],
                           {"portfolio"}, store.running)
    /\ UNCHANGED <<appVars, img, json, norm>>

\* onUpdateProfile={setFirmProfile}
StoreUpdateProfile ==
    /\ store.pc = "up"
    /\ \E profile \in ValidStored("firmProfile") \cup {DEFAULT_PROFILE} :
          /\ store.mem["firmProfile"] # profile
          /\ Mutated([store.mem EXCEPT !["firmProfile"] = profile],
                              {"firmProfile"}, store.running)
    /\ UNCHANGED <<appVars, img, json, norm>>

\* The user reloads or closes the page; a run in progress dies with it.
StoreReload ==
    /\ store.pc \in {"up", "crashed"}
    /\ store' = [store EXCEPT !.pc = "down", !.mem = NoMem, !.running = FALSE,
                              !.changed = {}]
    /\ UNCHANGED <<appVars, img, json, norm>>

\* resetState: confirm() shows its dialog and blocks the page.
ResetAsked ==
    /\ store.pc = "up"
    /\ store' = [store EXCEPT !.pc = "confirm", !.changed = {}]
    /\ UNCHANGED <<appVars, img, json, norm>>

\* confirm() answered no.
ResetDeclined ==
    /\ store.pc = "confirm"
    /\ store' = [store EXCEPT !.pc = "up", !.changed = {}]
    /\ UNCHANGED <<appVars, img, json, norm>>

\* confirm() answered yes: localStorage.clear() and
\* window.location.reload(), which starts the navigation and returns.
ResetConfirmed ==
    /\ store.pc = "confirm"
    /\ store' = [store EXCEPT !.pc = "unloading",
                              !.ls = [k \in StoreKeys |-> Null],
                              !.reset = TRUE, !.changed = {}]
    /\ UNCHANGED <<appVars, img, json, norm>>

\* The navigation started by reload() unloads the page.
StoreUnload ==
    /\ store.pc = "unloading"
    /\ store' = [store EXCEPT !.pc = "down", !.mem = NoMem, !.running = FALSE,
                              !.changed = {}]
    /\ UNCHANGED <<appVars, img, json, norm>>

StoreNext ==
    \/ Startup
    \/ StoreRunStart
    \/ StoreRunStep
    \/ StoreRunEnd
    \/ StoreCreateDeal
    \/ StoreSetView
    \/ StoreIngest
    \/ StoreUpdateProfile
    \/ StoreReload
    \/ ResetAsked
    \/ ResetDeclined
    \/ ResetConfirmed
    \/ StoreUnload

StoreSpec == StoreInit /\ [][StoreNext]_vars

\* ================================================================ claims
HandlerRuns == {r \in RunIds : runs[r].kind \in {"sourcing", "document"}}

EntriesOf(r, k) == {i \in DOMAIN logs : logs[i].inv = <<r, k>>}

\* C1: every runStep invocation appends exactly one log entry, with status
\* completed when fn() resolved and error when it rejected; while fn() is in
\* flight the invocation has no entry, and every runStep entry of the log
\* belongs to an invocation that was made.
C1_OneEntryPerInvocation ==
    /\ \A r \in RunIds : \A k \in 1..runs[r].nsteps :
          LET h == runs[r].hist[k]
          IN  /\ Cardinality(EntriesOf(r, k)) = IF h.out = "inflight" THEN 0 ELSE 1
              /\ \A i \in EntriesOf(r, k) :
                    logs[i].status = IF h.out = "ok" THEN "completed" ELSE "error"
    /\ \A i \in DOMAIN logs :
          logs[i].inv[2] > 0 => logs[i].inv[2] <= runs[logs[i].inv[1]].nsteps

\* C1 witness: a run whose first step resolved and whose second rejected,
\* with the two entries in the log.
C1_Witness ==
    \E r \in RunIds :
        /\ Len(runs[r].hist) = 2
        /\ runs[r].hist[1].out = "ok" /\ runs[r].hist[2].out = "err"
        /\ Cardinality(EntriesOf(r, 1)) = 1 /\ Cardinality(EntriesOf(r, 2)) = 1

\* C2: runStep calls fn() once per invocation and hands its caller exactly
\* the outcome of fn(): the same result when it resolved, the same error
\* when it rejected.
C2_ReturnsWorkOutcome ==
    \A r \in RunIds :
        /\ Len(runs[r].hist) = runs[r].nsteps
        /\ runs[r].lastRet = runs[r].lastWork

\* C2 witness: a runStep whose fn() rejected and which threw that error.
C2_Witness ==
    \E r \in RunIds :
        /\ "ok" \in DOMAIN runs[r].lastWork
        /\ ~runs[r].lastWork.ok
        /\ runs[r].lastRet = runs[r].lastWork

\* C3 (as claimed): while the fn() of a runStep on agent A is in flight, A has
\* status working and the step description as current task.
C3_WorkingWhileInFlight ==
    \A r \in RunIds :
        InFlight(r) =>
            /\ agents[StepRole(runs[r].pc)].status = "working"
            /\ agents[StepRole(runs[r].pc)].currentTask = Descr(runs[r].kind, runs[r].pc)

\* The error a handleUserMessage run was aborted with.
RaisedError(rr) ==
    IF "ok" \in DOMAIN rr.lastWork /\ ~rr.lastWork.ok
    THEN rr.lastWork.error.message
    ELSE NoTargetsError.message

FailureMessages(msgs, r) ==
    {i \in DOMAIN msgs :
        /\ msgs[i].run = r /\ msgs[i].role = "system"
        /\ msgs[i].content[1] = "Pipeline Execution Failed"}

\* C4: when an awaited step of a sourcing or document run raises, the run is
\* aborted in that same step: every agent then has status error, one system
\* message "Pipeline Execution Failed" with the raised error's message is
\* appended, the run has exactly that one failure message from then on, and
\* an aborted run starts no further step.
C4_AbortHandling ==
    [][\A r \in HandlerRuns' :
          /\ (InFlight(r) /\ runs'[r].hist # runs[r].hist
                /\ Last(runs'[r].hist).out = "err")
                => runs'[r].result = "aborted"
          /\ (runs[r].result # "aborted" /\ runs'[r].result = "aborted")
                => /\ \A a \in Roles : agents'[a].status = "error"
                   /\ Len(messages') = Len(messages) + 1
                   /\ SubSeq(messages', 1, Len(messages)) = messages
                   /\ Last(messages').role = "system"
                   /\ Last(messages').content =
                        <<"Pipeline Execution Failed", RaisedError(runs'[r])>>
          /\ Cardinality(FailureMessages(messages', r)) =
                IF runs'[r].result = "aborted" THEN 1 ELSE 0
          /\ runs[r].result = "aborted" => runs'[r] = runs[r]
      ]_vars

\* C4 witness: a run aborted by a raising step after an earlier step
\* succeeded, all agents in error and the failure message last in the log.
C4_Witness ==
    \E r \in HandlerRuns :
        /\ runs[r].result = "aborted"
        /\ Len(runs[r].hist) >= 2 /\ Last(runs[r].hist).out = "err"
        /\ \A a \in Roles : agents[a].status = "error"
        /\ Last(messages).content =
              <<"Pipeline Execution Failed", RaisedError(runs[r])>>

\* A sourcing run aborted because the scout step returned no candidate.
ZeroTargetRun(rr) ==
    /\ rr.kind = "sourcing" /\ rr.result = "aborted"
    /\ rr.error = NoTargetsError.message

StepNames(h) == [k \in DOMAIN h |-> h[k].step]

RoomHolds(ds, id, sd) ==
    \E i \in DOMAIN ds :
        /\ ds[i].id = id
        /\ \A key \in {"companyName", "financialModels", "lboModel", "memo"} :
              /\ key \in DOMAIN sd
              /\ key \in DOMAIN ds[i].data
              /\ ds[i].data[key] = sd[key]

\* C6 (as claimed): when a sourcing or document run completes, the structured
\* result of its structuring step is in the run's deal room, whether a deal
\* was active at the start or the run created the room.
C6_CommitOnSuccess ==
    [][\A r \in HandlerRuns' :
          (runs[r].result # "ok" /\ runs'[r].result = "ok")
              => RoomHolds(deals', runs'[r].roomId, runs'[r].structured)
      ]_vars

\* C7: a run that committed its structured result and is aborted by a later
\* step leaves the deal collection as it is: the abort path writes nothing
\* to it and the committed result stays in the room.
C7_AbortKeepsCommit ==
    [][\A r \in HandlerRuns' :
          (runs[r].result # "aborted" /\ runs'[r].result = "aborted")
              => /\ deals' = deals
                 /\ runs'[r].committed
                      => RoomHolds(deals', runs'[r].roomId, runs'[r].structured)
      ]_vars

\* C7 witness: a run aborted after its commit, the result still in the room.
C7_Witness ==
    \E r \in HandlerRuns :
        /\ runs[r].result = "aborted"
        /\ runs[r].committed
        /\ RoomHolds(deals, runs[r].roomId, runs[r].structured)

\* C8: every entry of the step log, written by runStep or directly by the
\* handler, carries the trace id generated at the start of its run.
C8_TraceIdOfRun ==
    \A i \in DOMAIN logs :
        /\ logs[i].inv[1] \in RunIds
        /\ runs[logs[i].inv[1]].kind # "none"
        /\ logs[i].traceId = runs[logs[i].inv[1]].traceId

\* C8 witness: the log holds a direct entry and runStep entries of two runs
\* with different trace ids.
C8_Witness ==
    /\ \E i \in DOMAIN logs : logs[i].inv[2] = 0
    /\ \E i, j \in DOMAIN logs :
          /\ logs[i].inv[1] # logs[j].inv[1]
          /\ logs[i].traceId # logs[j].traceId
          /\ logs[i].inv[2] > 0 /\ logs[j].inv[2] > 0

SourcingChain ==
    <<"strategy", "scout", "select", "deepdive", "structure", "location",
      "image", "opinion">>

DocumentChain == <<"extract", "structure", "opinion">>

\* C9: the steps a run has started are a prefix of its flow's chain, in
\* order and each once; every step but the last started has succeeded; a
\* completed run has run the whole chain.
C9_LinearChain ==
    \A r \in HandlerRuns :
        LET chain == IF runs[r].kind = "sourcing" THEN SourcingChain ELSE DocumentChain
            h == runs[r].hist
        IN  /\ IsPrefix(StepNames(h), chain)
            /\ \A k \in 1..(Len(h) - 1) : h[k].out = "ok"
            /\ runs[r].result = "ok"
                  => /\ StepNames(h) = chain
                     /\ \A k \in DOMAIN h : h[k].out = "ok"

\* C9 witness: a sourcing run that completed, and a document run stopped at
\* its second step.
C9_Witness ==
    /\ \E r \in RunIds : runs[r].kind = "sourcing" /\ runs[r].result = "ok"
    /\ \E r \in RunIds :
          /\ runs[r].kind = "document" /\ runs[r].result = "aborted"
          /\ Len(runs[r].hist) = 2

\* C10 (as claimed): at most one run is in progress at any time.
C10_SingleRun == Cardinality({r \in RunIds : InFlight(r)}) <= 1

\* C11: the concept-image step never aborts its run. Whatever the primary and
\* the fallback image call do, the step resolves (with a url or null), the
\* final-opinion step is started next, and a run that completes without an
\* image appends its final model message without an attachment.
C11_ImageBestEffort ==
    [][\A r \in RunIds :
          /\ (runs[r].kind = "sourcing" /\ runs[r].pc = "image"
                /\ runs'[r] # runs[r])
                => /\ runs'[r].result = "none"
                   /\ runs'[r].pc = "opinion"
                   /\ Last(runs'[r].hist) = [step |-> "opinion", out |-> "inflight"]
                   /\ runs'[r].hist[Len(runs[r].hist)].out = "ok"
                   /\ runs'[r].imageUrl \in {ImageUrl, Null}
          /\ (runs[r].kind = "sourcing" /\ runs[r].pc = "opinion"
                /\ runs'[r].result = "ok")
                => /\ Last(messages').role = "model"
                   /\ Last(messages').run = r
                   /\ Last(messages').attachment =
                        IF runs[r].imageUrl = Null THEN "none" ELSE "image"
      ]_vars

\* C11 witness: a sourcing run completed after its image step yielded null,
\* the final model message carrying no attachment.
C11_Witness ==
    \E r \in RunIds :
        /\ runs[r].kind = "sourcing" /\ runs[r].result = "ok"
        /\ runs[r].lastWork.ok
        /\ \E k \in DOMAIN logs :
              logs[k].inv = <<r, 7>> /\ logs[k].status = "completed"
        /\ Last(messages).run = r /\ Last(messages).role = "model"
        /\ Last(messages).attachment = "none"

\* Error messages of the permission / quota class.
AccessClassMessages ==
    {<<"403", "Forbidden">>, <<"PERMISSION_DENIED">>, <<"Quota", "exceeded">>}

\* C12: the primary image model is called once, with the size option; the
\* fallback model is called at most once, only after the primary call failed
\* with an error of the permission/quota class, and without the size option;
\* after a primary success or a failure of another class no second call is
\* made. The function returns a url or null, never an error.
C12_FallbackProtocol ==
    /\ Len(img.calls) <= 2
    /\ img.pc # "start"
          => /\ Len(img.calls) >= 1
             /\ img.calls[1].model = PrimaryImageModel
             /\ "imageSize" \in DOMAIN img.calls[1].imageConfig
    /\ Len(img.calls) = 2
          => /\ ~img.primary.ok
             /\ "message" \in DOMAIN img.primary.error
             /\ img.primary.error.message \in AccessClassMessages
             /\ img.calls[2].model = FallbackImageModel
             /\ "imageSize" \notin DOMAIN img.calls[2].imageConfig
    /\ img.pc = "done"
          => /\ img.result \in {Resolved(ImageUrl), Resolved(Null)}
             /\ (img.primary.ok => Len(img.calls) = 1)

\* C12 witness: a call that went to the fallback model and got its image there.
C12_Witness ==
    /\ img.pc = "done"
    /\ Len(img.calls) = 2
    /\ img.result = Resolved(ImageUrl)

\* C13 (as claimed): whenever a sourcing or document run has been aborted,
\* for any cause, the step log holds an entry with status error and the
\* run's trace id whose error detail carries the message of the error that
\* aborted the run.
C13_AbortHasErrorEntry ==
    \A r \in HandlerRuns :
        runs[r].result = "aborted"
            => \E i \in DOMAIN logs :
                  /\ logs[i].traceId = runs[r].traceId
                  /\ logs[i].status = "error"
                  /\ logs[i].errorDetails.message = runs[r].error

\* The deliverables held by the deal room id of collection ds.
RoomDeliverables(ds, id) ==
    UNION {{DeliverablesOf(ds[i].data)[j] : j \in DOMAIN DeliverablesOf(ds[i].data)} :
           i \in {k \in DOMAIN ds : ds[k].id = id}}

DeliverableIds(ds, id) == {d.id : d \in RoomDeliverables(ds, id)}

\* The deliverables of the room that were completed in collection ds.
CompletedDeliverableIds(ds, id) ==
    {d.id : d \in {x \in RoomDeliverables(ds, id) : x.status = "completed"}}

\* C14 (as claimed): a step of a sourcing or document run, in particular its
\* commit, never removes a deliverable from a deal room: every deliverable
\* that was completed in a room when the run started and is held by the room
\* before the step is held by the room after the step.
C14_CommitKeepsDeliverables ==
    [][\A r \in HandlerRuns' :
          runs'[r] # runs[r]
              => \A i \in DOMAIN deals :
                    (CompletedDeliverableIds(runs'[r].dealsBefore, deals[i].id)
                        \cap DeliverableIds(deals, deals[i].id))
                        \subseteq DeliverableIds(deals', deals[i].id)
      ]_vars

\* C15 (as claimed): for a valid JSON document wrapped in prose and fences,
\* cleanAndParseJSON does not raise and returns the value that parsing the
\* document alone returns.
C15_EmbeddedEqualsDirect ==
    json.pc = "done" /\ json.case = "embedded"
        => json.result = Resolved(JSONparse(json.doc).value)

\* C16 (as claimed): for a valid JSON document cut after its second
\* character, outside an escape, cleanAndParseJSON does not raise.
C16_TruncatedNeverRaises ==
    json.pc = "done" /\ json.case = "truncated" => json.result.ok

\* {"companyName":"Acme","ebitda":12,"lboModel":{"irr":25,
TruncatedStructuringText == SubSeq(DealDocument, 1, 28)

\* lboModel fields other than irr
RemainingLboFields == {"entryMultiple", "exitMultiple", "moic", "debttoEquity"}

\* C17 (as claimed): the truncated structuring response, parsed and then
\* normalized with fallback name Acme, gives companyName Acme, ebitda 12,
\* lboModel.irr 25 and every other lboModel field present and 0.
C17_TruncatedStructuring ==
    json.pc = "sanitized" /\ json.text = TruncatedStructuringText
        => /\ json.data.companyName = Str("Acme")
           /\ json.data.ebitda = Num(12)
           /\ json.data.lboModel.t = "obj"
           /\ "irr" \in DOMAIN json.data.lboModel.f
           /\ json.data.lboModel.f.irr = Num(25)
           /\ \A k \in RemainingLboFields :
                 /\ k \in DOMAIN json.data.lboModel.f
                 /\ json.data.lboModel.f[k] = Num(0)

\* The failure carries the text before and the text after the repair.
CarriesRepairTexts(error) ==
    \E pre, post \in DOMAIN error \ {"name", "message"} :
        /\ pre # post
        /\ error[pre] = json.cleanText
        /\ error[post] = json.repaired

Present(f, k) == k \in DOMAIN f /\ f[k].t # "null"

\* A financial section: an object with a title and a list of rows.
IsSection(v) ==
    /\ v.t = "obj"
    /\ Present(v.f, "title")
    /\ Present(v.f, "rows")
    /\ v.f.rows.t = "arr"

\* Every documented field of the Deal Record d is present, not null and of
\* its container type.
WellFormedDeal(d) ==
    /\ \A k \in DealFields : Present(d, k)
    /\ \A k \in ListFields : d[k].t = "arr"
    /\ d.financialModels.t = "obj"
    /\ Present(d.financialModels.f, "years")
    /\ d.financialModels.f.years.t = "arr"
    /\ \A k \in {"incomeStatement", "balanceSheet", "cashFlow"} :
          Present(d.financialModels.f, k) /\ IsSection(d.financialModels.f[k])
    /\ d.lboModel.t = "obj"
    /\ \A k \in DOMAIN DefaultLboModel.f : Present(d.lboModel.f, k)
    /\ d.lboDetailed.t = "obj"
    /\ \A k \in {"assumptions", "sources", "uses"} :
          Present(d.lboDetailed.f, k) /\ d.lboDetailed.f[k].t = "arr"
    /\ \A k \in {"debtSchedule", "projectedReturns"} :
          Present(d.lboDetailed.f, k) /\ IsSection(d.lboDetailed.f[k])
    /\ d.memo.t = "obj"
    /\ \A k \in DOMAIN defaultMemo :
          /\ Present(d.memo.f, k)
          /\ defaultMemo[k].t = "arr" => d.memo.f[k].t = "arr"

\* The parsed objects the totality claim ranges over: a field missing, valid,
\* or an object with some or all of its nested fields missing, or a scalar
\* field with a value of the wrong type.
InTotalityFamily ==
    \/ norm.shape \in {"absent", "valid", "partial"}
    \/ norm.shape = "empty" /\ norm.field \in ObjectFields
    \/ norm.shape = "wrongType" /\ norm.field \in TextFields \cup NumberFields

\* C18 (as claimed): for the empty object, a full record, a record with
\* top-level or nested fields missing, and a record with wrong-typed leaf
\* values, sanitizeDealData returns a record in which every documented field,
\* top-level and nested, is present, not null and of its container type.
C18_NormalizerTotality ==
    norm.pc = "done" /\ InTotalityFamily => WellFormedDeal(norm.data)

\* The default sanitizeDealData documents for field k.
DocumentedDefault(k, companyName) ==
    CASE k = "companyName" ->
            IF Truthy(companyName) THEN companyName ELSE Str("Target Company")
      [] k = "sector" -> Str("Unknown Sector")
      [] k = "location" -> Str("N/A")
      [] k \in NumberFields -> Num(0)
      [] k = "financialModels" -> DefaultFinancialModels
      [] k = "lboModel" -> DefaultLboModel
      [] k = "lboDetailed" -> DefaultLboDetailed
      [] k = "memo" -> Obj(defaultMemo)
      [] k \in ListFields -> Arr(<<>>)

\* The memo fields the parsed object supplies.
SuppliedMemo(parsed) ==
    IF "memo" \in DOMAIN parsed /\ parsed.memo.t = "obj" THEN parsed.memo.f ELSE EmptyObj

\* C19 (as claimed): every field the parsed object supplies, whatever its
\* value (0, the empty string and the empty list included), is carried
\* unchanged by the returned record, and a field whose key is absent carries
\* the documented default; the memo fields follow the rule one by one.
C19_SuppliedValueKept ==
    norm.pc = "done"
        => /\ \A k \in DealFields \ {"memo"} :
                 norm.data[k] = IF k \in DOMAIN norm.parsed
                                THEN norm.parsed[k]
                                ELSE DocumentedDefault(k, norm.companyName)
           /\ \A m \in DOMAIN defaultMemo :
                 norm.data.memo.f[m] = IF m \in DOMAIN SuppliedMemo(norm.parsed)
                                       THEN SuppliedMemo(norm.parsed)[m]
                                       ELSE defaultMemo[m]
\* ------------------------------------------------ claims on the durable store
\* The shape the type of slice s declares.
RightShape(s, v) ==
    CASE s = "agents" -> IsAgentList(v)
      [] s = "firmProfile" ->
            /\ v.t = "obj"
            /\ {"fundName", "fundType", "targetSectors"} \subseteq DOMAIN v.f
            /\ v.f.targetSectors.t = "arr"
      [] s = "currentView" -> v \in {Str("pipeline"), Str("portfolio")}
      [] OTHER -> v.t = "arr"

\* The value JSON.parse (with the reviver where the slice has one) gives for
\* the stored item of slice s, if it parses.
StoredValueOf(s, ls) ==
    IF s = "currentView"
    THEN {Str(StringOf(ls[StoreKey(s)].x)) : x \in {1} \cap
                                              (IF Saved(ls[StoreKey(s)]) THEN {1} ELSE {})}
    ELSE {IF s \in {"deals", "messages", "logs"} THEN Revive(r.value) ELSE r.value :
            r \in {q \in (IF Saved(ls[StoreKey(s)])
                          THEN {JSONparse(ls[StoreKey(s)].x)} ELSE {}) : q.ok}}

\* What the claim allows slice s to hold after a page load from ls: the stored
\* value when it has the right shape, or the default (for the deals, the
\* migrated legacy deal is the default while the deals key is absent).
AllowedAfterStartup(s, ls) ==
    {v \in StoredValueOf(s, ls) : RightShape(s, v)}
        \cup {DefaultSlice(s)}
        \cup (IF s = "deals" /\ HydrateDeals(ls).from = "legacy"
             THEN {HydrateDeals(ls).value} ELSE {})

\* C21 (as claimed): whatever is stored under the keys (nothing, text that
\* does not parse, or JSON of another shape), a page load completes (the first
\* render does not throw) and every slice holds the stored value of the right
\* shape or its default.
C21_HydrationNeverPreventsStartup ==
    [][Startup =>
          /\ store'.pc = "up"
          /\ \A s \in Slices : store'.mem[s] \in AllowedAfterStartup(s, store.ls)]_vars

\* The legacy key holds a deal object: JSON of an object with a company name.
LegacyHoldsDeal(ls) ==
    /\ Saved(ls[LegacyKey])
    /\ \E r \in {JSONparse(ls[LegacyKey].x)} : r.ok /\ HasCompanyName(Revive(r.value))

\* The rooms of a deal list that carry the id of the migrated room.
MigratedRooms(d) ==
    IF d.t # "arr" THEN {}
    ELSE {i \in DOMAIN d.a : d.a[i].t = "obj" /\ "id" \in DOMAIN d.a[i].f
                               /\ d.a[i].f.id = Str("legacy-migration")}

\* The value of the deals slice when only the deals key is looked at.
FromDealsKeyAlone(ls) == StoredValueOf("deals", ls) \cup {Arr(<<>>)}

\* What a page load does with the deals, given whether the write-back of the
\* load before it is known to have stored the deals key (stored).
MigrationAtStartup(stored) ==
    /\ ~Saved(store.ls["didi_deals"]) /\ LegacyHoldsDeal(store.ls) =>
          /\ store'.from = "legacy"
          /\ \E r \in {JSONparse(store.ls[LegacyKey].x)} :
                store'.mem["deals"] = Arr(<<LegacyRoom(Revive(r.value))>>)
          /\ stored => store'.ls["didi_deals"] =
                           StoredItem("deals", store'.mem["deals"])
    /\ Saved(store.ls["didi_deals"]) =>
          /\ store'.from \in {"deals", "catch"}
          /\ store'.mem["deals"] \in FromDealsKeyAlone(store.ls)
    /\ store.from = "legacy" /\ stored /\ ~store.reset =>
          /\ store'.from = "deals"
          /\ Cardinality(MigratedRooms(store'.mem["deals"])) = 1
    /\ Cardinality(MigratedRooms(store'.mem["deals"])) <= 1

\* C22 (as claimed): a page load with the deals key absent and a deal object
\* under the legacy key gives exactly one room wrapping that object, the
\* write-back that follows leaves the deals key present, the next page load
\* takes the deals from the deals key and holds the migrated room once; a
\* present deals key makes the load ignore the legacy key.
C22_MigrationOnceAlways ==
    [][Startup => MigrationAtStartup(TRUE)]_vars

\* C22 (amended): the same, where the deals key is present after the
\* migration only if setItem did not throw; the key, once present, stays
\* present until a reset clears the store, and no page load holds the migrated
\* room twice.
C22_MigrationOnce ==
    /\ [][Startup => MigrationAtStartup(~store.full)]_vars
    /\ [][Saved(store.ls["didi_deals"]) /\ ~ResetConfirmed
             => Saved(store'.ls["didi_deals"])]_vars

\* C22 witness: the page load after the one that migrated took the deals from
\* the deals key and holds the migrated room.
C22_Witness ==
    /\ store.pc = "up"
    /\ store.boots = 2
    /\ store.from = "deals"
    /\ Saved(store.ls[LegacyKey])
    /\ Cardinality(MigratedRooms(store.mem["deals"])) = 1

\* Nothing is stored under any key.
StoreEmpty(ls) == \A k \in StoreKeys : ls[k] = Null

\* C23 (as claimed): a confirmed reset, also with a run in progress, leaves
\* the store empty until the page is loaded again, and that page load has
\* every slice at its default; a declined confirmation changes neither the
\* store nor the slices.
C23_ResetRestartsFromScratch ==
    /\ [](store.reset /\ store.pc \in {"unloading", "down"} => StoreEmpty(store.ls))
    /\ [][Startup /\ store.reset =>
             /\ store'.pc = "up"
             /\ \A s \in Slices : store'.mem[s] = DefaultSlice(s)]_vars
    /\ [][ResetAsked \/ ResetDeclined =>
             /\ store'.ls = store.ls
             /\ store'.mem = store.mem
             /\ store'.running = store.running]_vars

\* The value without the object fields that are undefined, which
\* JSON.stringify leaves out.
RECURSIVE Defined(_)
Defined(v) ==
    CASE v.t = "arr" -> Arr([i \in DOMAIN v.a |-> Defined(v.a[i])])
      [] v.t = "obj" ->
            Obj([k \in {j \in DOMAIN v.f : v.f[j] # Undefined} |-> Defined(v.f[k])])
      [] OTHER -> v

\* The slices a step of the running page called the setters of.
MutatedSlices ==
    IF store.pc \in {"up", "unloading"} /\ store'.pc = store.pc
    THEN store'.changed
    ELSE {}

\* C24: a step of the page that gives slices a new value stores each of them
\* under its key, so that the stored text deserializes to the slice, unless
\* setItem throws, in which case the key keeps what it held; the slices have
\* their new values either way, no key of another slice changes, and a run
\* in progress goes on.
C24_WriteBack ==
    [][store.pc \in {"up", "unloading"} /\ store'.pc = store.pc =>
          /\ \A s \in MutatedSlices :
                IF store.full
                THEN store'.ls[StoreKey(s)] = store.ls[StoreKey(s)]
                ELSE /\ store'.ls[StoreKey(s)] = StoredItem(s, store'.mem[s])
                     /\ StoredValueOf(s, store'.ls) = {Defined(store'.mem[s])}
          /\ \A s \in Slices \ MutatedSlices : store'.mem[s] = store.mem[s]
          /\ \A k \in StoreKeys :
                store'.ls[k] # store.ls[k] => \E s \in MutatedSlices : k = StoreKey(s)
          /\ store.running /\ ~store'.running => StoreRunEnd]_vars

\* C24 witness: the user message of a run was stored under the messages key
\* and the run is in progress.
C24_Witness ==
    /\ store.pc = "up"
    /\ store.running
    /\ ~store.full
    /\ store.mem["messages"].t = "arr"
    /\ \E i \in DOMAIN store.mem["messages"].a : store.mem["messages"].a[i] = UserMessage
    /\ store.ls["didi_messages"] = StoredItem("messages", store.mem["messages"])

\* --------------------------------------------------- claims on the pipeline
\* C25: every step that changes the step log appends to it, leaving the
\* entries it had unchanged and in their order, and every entry of the log has
\* status completed or error.
C25_AppendOnlyLog ==
    /\ [][IsPrefix(logs, logs')]_vars
    /\ [](\A i \in DOMAIN logs : logs[i].status \in {"completed", "error"})

\* C25 witness: a log of three or more entries holding a runStep entry of a
\* resolved step, one of a rejected step, and an entry written by the handler
\* itself.
C25_Witness ==
    /\ Len(logs) >= 3
    /\ \E i, j, k \in DOMAIN logs :
          /\ logs[i].status = "completed" /\ logs[i].inv[2] > 0
          /\ logs[j].status = "error"
          /\ logs[k].inv[2] = 0

\* The runs of handleUserMessage and handlePortfolioIngest.
PipelineRuns == {r \in RunIds : runs[r].kind \in {"sourcing", "document", "ingest"}}

InProgress(r) == runs[r].pc \notin {"idle", "done"}

\* C26, safety part: isProcessing is true while a run is in progress.
C26_ProcessingWhileRunning ==
    \A r \in PipelineRuns : InProgress(r) => isProcessing

\* C26, liveness part: a run in progress eventually ends.
C26_Terminates ==
    \A r \in RunIds :
        (r \in PipelineRuns /\ InProgress(r)) ~> (runs[r].pc = "done")

\* C26, end part: the step that ends a run leaves isProcessing false and the
\* active edge cleared.
C26_EndsCleared ==
    [][\A r \in RunIds :
          r \in PipelineRuns /\ InProgress(r) /\ runs'[r].pc = "done" =>
             ~isProcessing' /\ activeEdge' = "null"]_vars

\* C26 (as claimed): where every awaited model call eventually settles, every
\* run of handleUserMessage and of handlePortfolioIngest eventually ends, the
\* step that ends it leaves isProcessing false and the active edge cleared,
\* and isProcessing is true from the start of the run until then.
C26_RunTermination ==
    /\ C26_Terminates
    /\ C26_EndsCleared
    /\ []C26_ProcessingWhileRunning

\* C27 in the running page: while no run of a handler is in progress, no
\* agent has status working or thinking.
C27_IdleWithoutRun ==
    (\A r \in RunIds : ~InFlight(r)) =>
        \A a \in Roles : agents[a].status \notin {"working", "thinking"}

\* The agents in the list value v with status working or thinking.
BusyStored(v) ==
    IF ~IsAgentList(v) THEN {}
    ELSE {i \in DOMAIN v.a : "status" \in DOMAIN v.a[i].f
                               /\ v.a[i].f.status \in {Str("working"), Str("thinking")}}

\* C27 (as claimed): in a loaded page with no run in progress, the state
\* right after the hydration included, no agent has status working or
\* thinking.
C27_NoBusyAgentWithoutWork ==
    store.pc = "up" /\ ~store.running => BusyStored(store.mem["agents"]) = {}

\* The agents a pipeline run of the given kind sets a status on.
TouchedBy(kind) ==
    CASE kind = "sourcing" -> {"MD", "VP", "SCOUT", "COMPS", "ASSOCIATE"}
      [] kind = "document" -> {"MD", "DILIGENCE", "ASSOCIATE"}
      [] kind = "ingest" -> {"DILIGENCE"}
      [] OTHER -> {}

\* C27, the successful run: when a run ends without an error, the agents it
\* touched are idle.
C27_IdleAfterSuccess ==
    [][\A r \in RunIds :
          /\ r \in PipelineRuns /\ InProgress(r)
          /\ runs'[r].pc = "done" /\ runs'[r].result = "ok"
          => \A a \in TouchedBy(runs[r].kind) : agents'[a].status = "idle"]_vars

\* The deliverables of the deal rooms with the given id.
DeliverablesIn(ds, dealId) ==
    UNION {{DeliverablesOf(ds[i].data)[j] : j \in DOMAIN DeliverablesOf(ds[i].data)} :
             i \in {k \in DOMAIN ds : ds[k].id = dealId}}

\* Run r is a deliverable generation that finished without an error.
Generated(r) ==
    /\ runs[r].kind = "deliverable"
    /\ runs[r].pc \in {"timer", "done"}
    /\ runs[r].result = "ok"

\* C28 (as claimed): once two deliverable generations on the same deal have
\* both finished, one after the other or overlapping, the deal holds both
\* deliverables with status completed; and the status of a deliverable a deal
\* holds never changes except from rendering to completed.
C28_DeliverablesNeverLost ==
    /\ [](\A r, q \in RunIds :
            r # q /\ Generated(r) /\ Generated(q) /\ runs[r].roomId = runs[q].roomId =>
               \E d \in DeliverablesIn(deals, runs[r].roomId) :
                  d.id = runs[r].delivId /\ d.status = "completed")
    /\ [][\A i \in DOMAIN deals : \A d \in DeliverablesIn(deals, deals[i].id) :
             \A e \in DeliverablesIn(deals', deals[i].id) :
                 e.id = d.id /\ e.status # d.status =>
                     d.status = "rendering" /\ e.status = "completed"]_vars

\* Run r takes a step.
StepOf(r) == runs'[r] # runs[r]

StructuredFromEmpty(r) ==
    /\ runs[r].kind = "sourcing" /\ runs[r].pc = "structure" /\ StepOf(r)
    /\ runs'[r].hist[Len(runs[r].hist)].out = "ok"
    /\ runs'[r].structured =
          DealStructureOf(EmptyObj, runs[r].fallbackName, runs[r].targets)

\* C30: cleanAndParseJSON gives the empty object for empty text, and so does
\* the structuring call, which parses "{}" in its place; the record built
\* from it has every field at its documented default, the fallback company
\* name and the candidate list it was given; runStep appends a completed
\* entry for the step and the run goes on to the location verification.
C30_EmptyResponseIsNotAnError ==
    /\ cleanAndParseJSON(<<>>) = Resolved(Obj(EmptyObj))
    /\ cleanAndParseJSON(TextOrEmptyObject(<<>>)) = Resolved(Obj(EmptyObj))
    /\ [][\A r \in RunIds :
             StructuredFromEmpty(r) =>
                /\ WellFormedDeal(runs'[r].structured)
                /\ \A k \in DealFields \ {"candidatesAnalyzed"} :
                      runs'[r].structured[k] =
                          DocumentedDefault(k, runs[r].fallbackName)
                /\ runs'[r].structured.companyName = runs[r].fallbackName
                /\ runs'[r].structured.candidatesAnalyzed = runs[r].targets
                /\ Len(logs') = Len(logs) + 1
                /\ IsPrefix(logs, logs')
                /\ Last(logs').status = "completed"
                /\ Last(logs').inv = <<r, runs[r].nsteps>>
                /\ runs'[r].pc = "location"]_vars

\* C30 witness: a sourcing run past its structuring step holds the defaulted
\* record with the candidates of the scan and awaits the location
\* verification.
C30_Witness ==
    \E r \in RunIds :
        /\ runs[r].kind = "sourcing" /\ runs[r].pc = "location"
        /\ runs[r].structured = DealStructureOf(EmptyObj, runs[r].fallbackName,
                                                runs[r].targets)
        /\ Len(runs[r].targets.a) > 0
        /\ runs[r].structured.sector = Str("Unknown Sector")
        /\ Last(logs).status = "completed"

====
